---- MODULE Spec2Model ----
(***************************************************************************)
(* Model of the Discord/GCP bot: the usage ledger and rate limiter of      *)
(* DBCog (cogs/db_cog.py), the game-server commands of GameServerCog       *)
(* (cogs/gameserver_cog.py) and the VM primitives of GcpCog                *)
(* (cogs/gcp_cog.py).                                                      *)
(*                                                                         *)
(* Time is the UTC clock read by datetime.utcnow(), in seconds.  Calls to  *)
(* the Discord API (send_message, defer, followup.send, edit) are I/O;     *)
(* where the source guards one with try/except its failure is an input of  *)
(* the action, otherwise it is taken to succeed.  The cloud provider and   *)
(* the SQL store are inputs as well: each call either succeeds or raises.  *)
(***************************************************************************)
EXTENDS Integers, Sequences, FiniteSets, TLC

(* ---------------------------- bounds ----------------------------------- *)
MaxTime == 120          \* the clock stops advancing here
MaxLedger == 3          \* no new invocation arrives once the ledger holds this many rows
TickSteps == {30}       \* seconds the clock advances in one Tick

(* ------------------------- identities ---------------------------------- *)
\* interaction.user is None (db_cog.py:152)
NoUser == 0
\* Discord user ids; bot.is_owner() holds for the ids in AppOwnerIds
AppOwnerIds == {100}
UserIds == {100, 201}
\* whoever an interaction may carry: a user, or none
InteractionUsers == {NoUser, 100, 201}
\* a command whose name cannot be determined (db_cog.py:88, 165)
NoName == "<none>"

(* ------------------------- configuration ------------------------------- *)
\* timedelta(minutes=1) of the sliding window, in seconds
OneMinute == 60
\* super().__init__(timeout=60.0) of the two confirmation views
ViewTimeout == 60
\* settings.get_rate_limit_excluded_commands(): the default 'help,ping,status',
\* and a configuration that also excludes the slash command admin_test
ExcludedChoices == {{"help", "ping", "status"}, {"help", "ping", "status", "admin_test"}}
\* values of max_commands_per_minute the model is run with
MaxPerMinuteChoices == {1, 2}
\* the defaults of [abuse_prevention] (settings.py:65-69)
DefaultMaxPerMinute == 20
DefaultMaxActiveVms == 2
DefaultCooldown == 300
DefaultExcluded == {"help", "ping", "status"}
\* values of max_active_vms_per_user and vm_creation_cooldown_seconds the
\* create workflow is run with; 0 switches the check off
MaxActiveChoices == {0, 2}
CooldownChoices == {0, 90}

VARIABLES
    now,        \* datetime.utcnow()
    ledger,     \* table user_usage: sequence of UserUsage rows, in insertion order
    settings,   \* the loaded configuration (core/settings.py)
    itx,        \* the command invocation in flight (slash interaction or prefixed ctx)
    last,       \* the last operation performed, with its inputs and its result
    inventory,      \* table game_server_instances: set of GameServerInstance rows
    vms,            \* the provider's instances
    firewall_rules, \* the provider's firewall rules
    game_templates, \* GameServerCog.game_templates, as loaded and as mutated since
    view,           \* the ConfirmDeleteView on screen, if any
    wait            \* the wait_for_operation call in progress, if any

vars == <<now, ledger, settings, itx, last,
         inventory, vms, firewall_rules, game_templates, view, wait>>

\* the inventory table, the provider's resources, the loaded templates and the
\* delete confirmation on screen
world == <<inventory, vms, firewall_rules, game_templates, view>>

(* ---------------------------- DBCog ------------------------------------ *)
\* str(user.id): the ledger stores and compares ids as strings
str(id) == ToString(id)

bot_is_owner(user) == user \in AppOwnerIds

UserUsage(user_id, command_name, timestamp) ==
    [user_id |-> user_id, command_name |-> command_name, timestamp |-> timestamp]

\* DBCog.log_usage: one row per call; a failed commit is rolled back and swallowed
log_usage(rows, user_id, command_name, t, write_error) ==
    IF write_error THEN rows
    ELSE Append(rows, UserUsage(str(user_id), command_name, t))

\* the count without the filter on user_id: a mutation
command_count_OfEveryUser(rows, uid, since) ==
    Cardinality({i \in DOMAIN rows : rows[i].timestamp >= since})

\* SELECT count(id) WHERE user_id = :uid AND timestamp >= :since
command_count(rows, uid, since) ==
    Cardinality({i \in DOMAIN rows : rows[i].user_id = uid /\ rows[i].timestamp >= since})

\* check_app_command_rate_limit without the owner bypass
check_app_command_rate_limit_NoOwnerBypass(user, name, rows, t, max, excluded, db_error) ==
    IF user = NoUser THEN "allow"
    ELSE IF name = NoName THEN "allow"
    ELSE IF name \in excluded THEN "allow"
    ELSE IF db_error THEN "allow"
    ELSE IF command_count(rows, str(user), t - OneMinute) >= max THEN "deny"
    ELSE "allow"

\* check_app_command_rate_limit failing closed on a storage error
check_app_command_rate_limit_FailClosed(user, name, rows, t, max, excluded, db_error) ==
    IF user = NoUser THEN "allow"
    ELSE IF bot_is_owner(user) THEN "allow"
    ELSE IF name = NoName THEN "allow"
    ELSE IF name \in excluded THEN "allow"
    ELSE IF db_error THEN "deny"
    ELSE IF command_count(rows, str(user), t - OneMinute) >= max THEN "deny"
    ELSE "allow"

\* DBCog.check_app_command_rate_limit: "allow" is True, "deny" is False
check_app_command_rate_limit(user, name, rows, t, max, excluded, db_error) ==
    IF user = NoUser THEN "allow"
    ELSE IF bot_is_owner(user) THEN "allow"
    ELSE IF name = NoName THEN "allow"
    ELSE IF name \in excluded THEN "allow"
    ELSE IF db_error THEN "allow"
    ELSE IF command_count(rows, str(user), t - OneMinute) >= max THEN "deny"
    ELSE "allow"

\* cog_check without the excluded-command bypass
cog_check_NoExclusion(author, name, rows, t, max, excluded, db_error, send_error) ==
    IF bot_is_owner(author) THEN "allow"
    ELSE IF db_error THEN "allow"
    ELSE IF command_count(rows, str(author), t - OneMinute) >= max
         THEN (IF send_error THEN "allow" ELSE "deny")
    ELSE "allow"

\* DBCog.cog_check: the denial message is sent inside the try block, so an
\* exception of ctx.send is caught by "except Exception" and answered True
cog_check(author, name, rows, t, max, excluded, db_error, send_error) ==
    IF bot_is_owner(author) THEN "allow"
    ELSE IF name \in excluded THEN "allow"
    ELSE IF db_error THEN "allow"
    ELSE IF command_count(rows, str(author), t - OneMinute) >= max
         THEN (IF send_error THEN "allow" ELSE "deny")
    ELSE "allow"

(* ---------------------------- strings ----------------------------------- *)
\* Instance names are carried as TLA+ strings; Chars gives the characters of a
\* name, on which the regular expression, lower(), replace() and slicing work.
LowerLetters == <<"a","b","c","d","e","f","g","h","i","j","k","l","m",
                  "n","o","p","q","r","s","t","u","v","w","x","y","z">>
UpperLetters == <<"A","B","C","D","E","F","G","H","I","J","K","L","M",
                  "N","O","P","Q","R","S","T","U","V","W","X","Y","Z">>
DigitChars == <<"0","1","2","3","4","5","6","7","8","9">>

Range(f) == {f[i] : i \in DOMAIN f}

\* the longest name the provider accepts, and one character more
Name63 == "aaaaaaaaaaaaaaaaaaaaaaaaaaaaaaaaaaaaaaaaaaaaaaaaaaaaaaaaaaaaaaa"
\* a second valid name, of 55 characters, that begins as the 63-character one
Name55 == "aaaaaaaaaaaaaaaaaaaaaaaaaaaaaaaaaaaaaaaaaaaaaaaaaaaaaaa"
Name64 == "aaaaaaaaaaaaaaaaaaaaaaaaaaaaaaaaaaaaaaaaaaaaaaaaaaaaaaaaaaaaaaaa"

Chars(name) ==
    CASE name = "mc1"      -> <<"m","c","1">>
      [] name = "srv-2"    -> <<"s","r","v","-","2">>
      [] name = "My_Srv"   -> <<"M","y","_","S","r","v">>
      [] name = "gone"     -> <<"g","o","n","e">>
      [] name = "a"        -> <<"a">>
      [] name = "my-server1" -> <<"m","y","-","s","e","r","v","e","r","1">>
      [] name = "MyServer" -> <<"M","y","S","e","r","v","e","r">>
      [] name = "1server"  -> <<"1","s","e","r","v","e","r">>
      [] name = "server-"  -> <<"s","e","r","v","e","r","-">>
      [] name = "my_server" -> <<"m","y","_","s","e","r","v","e","r">>
      [] name = Name63     -> [i \in 1..63 |-> "a"]
      [] name = Name55     -> [i \in 1..55 |-> "a"]
      [] name = Name64     -> [i \in 1..64 |-> "a"]
      [] name = ""         -> <<>>

\* s[:n]
Slice(s, n) == IF Len(s) <= n THEN s ELSE SubSeq(s, 1, n)

\* str.lower() of one character
lower(c) ==
    IF c \in Range(UpperLetters)
    THEN LowerLetters[CHOOSE i \in DOMAIN UpperLetters : UpperLetters[i] = c]
    ELSE c

\* str(n) of a non-negative integer
RECURSIVE int_str(_)
int_str(n) == IF n < 10 THEN <<DigitChars[n + 1]>>
              ELSE int_str(n \div 10) \o <<DigitChars[(n % 10) + 1]>>

\* a validation whose pattern is [a-z][-a-z0-9]*, which lets a name end with a
\* hyphen: a mutation
valid_instance_name_AllowsTrailingHyphen(name) ==
    LET c == Chars(name)
    IN /\ Len(c) >= 1
       /\ Len(c) <= 63
       /\ c[1] \in Range(LowerLetters)
       /\ \A i \in 2..Len(c) : c[i] \in Range(LowerLetters) \cup Range(DigitChars) \cup {"-"}

\* re.fullmatch(r"[a-z]([-a-z0-9]*[a-z0-9])?", name) and 1 <= len(name) <= 63
valid_instance_name(name) ==
    LET c == Chars(name)
        tail == Range(LowerLetters) \cup Range(DigitChars)
    IN /\ Len(c) >= 1
       /\ Len(c) <= 63
       /\ c[1] \in Range(LowerLetters)
       /\ \A i \in 2..Len(c) : c[i] \in tail \cup {"-"}
       /\ Len(c) > 1 => c[Len(c)] \in tail

\* f"gameserv-{instance_name.lower().replace('_', '-')}"[:63]
game_server_specific_tag(name) ==
    LET c == Chars(name)
        folded == [i \in DOMAIN c |-> IF lower(c[i]) = "_" THEN "-" ELSE lower(c[i])]
    IN Slice(<<"g","a","m","e","s","e","r","v","-">> \o folded, 63)

\* the tag without the [:63] at the place where the rules are looked up: a
\* mutation
game_server_specific_tag_delete_NotTruncated(name) ==
    LET c == Chars(name)
    IN <<"g","a","m","e","s","e","r","v","-">>
       \o [i \in DOMAIN c |-> IF lower(c[i]) = "_" THEN "-" ELSE lower(c[i])]

\* the same expression, written a second time where the rules of a deleted
\* server are looked up (gameserver_cog.py:731)
game_server_specific_tag_delete(name) ==
    LET c == Chars(name)
        folded == [i \in DOMAIN c |-> IF lower(c[i]) = "_" THEN "-" ELSE lower(c[i])]
    IN Slice(<<"g","a","m","e","s","e","r","v","-">> \o folded, 63)

\* f"allow-{instance_name[:20]}-{port_num}-{port_proto.lower()}"[:62]
firewall_rule_name(name, port_num, port_proto) ==
    Slice(<<"a","l","l","o","w","-">> \o Slice(Chars(name), 20) \o <<"-">>
          \o int_str(port_num) \o <<"-">>
          \o (IF port_proto = "TCP" THEN <<"t","c","p">> ELSE <<"u","d","p">>), 62)

(* ----------------------- InstanceInventory ------------------------------ *)
\* None in a string-valued position (ip_address)
None == "None"
\* an Optional value of any other type: <<>> is None, <<x>> is the value x
Nothing == <<>>
Some(x) == <<x>>
\* auto_shutdown_hours is NULL (the command accepts 1..720 only)
NoHours == 0

\* The attributes class DBCog defines (db_cog.py:44-200).  The inventory
\* functions register_game_server ... remove_game_server are written inside
\* the body of the module function setup() (db_cog.py:203-348): they are local
\* functions of setup, not attributes of a DBCog object.
DBCogMethods == {"log_usage", "on_command_completion", "on_interaction", "cog_check",
                 "get_last_command_timestamp", "check_app_command_rate_limit"}

\* getattr(db_cog, method) succeeds; otherwise the call raises AttributeError
HasMethod(method) == method \in DBCogMethods

\* a row of game_server_instances; ports_info is NULL or the JSON of a list
\* str(instance.id): the provider's numeric id of the instance of that name
instance_id(name) ==
    CASE name = "mc1" -> "7001" [] name = "My_Srv" -> "7002" [] name = "srv-2" -> "7003"
      [] name = "a" -> "7004" [] name = "my-server1" -> "7005" [] name = Name63 -> "7006"
      [] name = Name55 -> "7007"
      [] OTHER -> "7000"

GameServerInstance(owner, name, status, ip, ports, t, hours) ==
    [discord_user_id |-> owner, gcp_instance_name |-> name,
     gcp_instance_id |-> instance_id(name),
     status |-> status, ip_address |-> ip, ports_info |-> ports,
     created_at |-> t, last_status_update |-> t, auto_shutdown_hours |-> hours]

RowsNamed(inv, name) == {r \in inv : r.gcp_instance_name = name}

\* the unique index on gcp_instance_id (a nullable column: NULLs do not clash)
IdTaken(inv, name, gcp_instance_id) ==
    /\ gcp_instance_id # None
    /\ \E r \in inv : r.gcp_instance_name # name /\ r.gcp_instance_id = gcp_instance_id

\* register without the unique index on gcp_instance_name: a mutation
register_game_server_NoUniqueName(inv, owner, name, gcp_instance_id, status, ip, ports, t, hours, db_error) ==
    IF db_error \/ IdTaken(inv, name, gcp_instance_id)
    THEN [raised |-> TRUE, inv |-> inv]
    ELSE [raised |-> FALSE,
          inv |-> inv \cup {[GameServerInstance(str(owner), name, status, ip,
                                                IF ports # <<>> THEN Some(ports) ELSE Nothing,
                                                t, hours)
                               EXCEPT !.gcp_instance_id = gcp_instance_id]}]

\* setup.register_game_server: the unique indexes on gcp_instance_name and on
\* gcp_instance_id make the commit of a second row of that name or id fail; the
\* error is re-raised
register_game_server(inv, owner, name, gcp_instance_id, status, ip, ports, t, hours, db_error) ==
    IF db_error \/ RowsNamed(inv, name) # {} \/ IdTaken(inv, name, gcp_instance_id)
    THEN [raised |-> TRUE, inv |-> inv]
    ELSE [raised |-> FALSE,
          inv |-> inv \cup {[GameServerInstance(str(owner), name, status, ip,
                                                IF ports # <<>> THEN Some(ports) ELSE Nothing,
                                                t, hours)
                               EXCEPT !.gcp_instance_id = gcp_instance_id]}]

\* the assignments of update_game_server_status to the row found
\* (db_cog.py:262-269): ip_address and ports_info are written when they are not
\* None, gcp_instance_id when it is truthy
updated_row(r, status, ip, gcp_instance_id, ports, t) ==
    [r EXCEPT !.status = status,
              !.ip_address = IF ip # None THEN ip ELSE @,
              !.gcp_instance_id = IF gcp_instance_id \notin {None, ""}
                                  THEN gcp_instance_id ELSE @,
              !.ports_info = IF ports # Nothing THEN ports ELSE @,
              !.last_status_update = t]

\* update that writes ip_address even when it was not given: a mutation
update_game_server_status_WritesOmittedIp(inv, name, status, ip, gcp_instance_id, ports, t, db_error) ==
    IF db_error \/ RowsNamed(inv, name) = {}
          \/ (gcp_instance_id # "" /\ IdTaken(inv, name, gcp_instance_id))
    THEN [ok |-> FALSE, raised |-> FALSE, inv |-> inv]
    ELSE [ok |-> TRUE, raised |-> FALSE,
          inv |-> {IF r.gcp_instance_name = name
                   THEN [updated_row(r, status, ip, gcp_instance_id, ports, t)
                            EXCEPT !.ip_address = ip]
                   ELSE r : r \in inv}]

\* update that leaves last_status_update alone: a mutation
update_game_server_status_KeepsTimestamp(inv, name, status, ip, gcp_instance_id, ports, t, db_error) ==
    IF db_error \/ RowsNamed(inv, name) = {}
          \/ (gcp_instance_id # "" /\ IdTaken(inv, name, gcp_instance_id))
    THEN [ok |-> FALSE, raised |-> FALSE, inv |-> inv]
    ELSE [ok |-> TRUE, raised |-> FALSE,
          inv |-> {IF r.gcp_instance_name = name
                   THEN [updated_row(r, status, ip, gcp_instance_id, ports, t)
                            EXCEPT !.last_status_update = r.last_status_update]
                   ELSE r : r \in inv}]

\* update_game_server_status that writes a row when there is none of that
\* name (an upsert): a mutation
update_game_server_status_Upserts(inv, name, status, ip, gcp_instance_id, ports, t, db_error) ==
    IF db_error \/ (gcp_instance_id # "" /\ IdTaken(inv, name, gcp_instance_id))
    THEN [ok |-> FALSE, raised |-> FALSE, inv |-> inv]
    ELSE IF RowsNamed(inv, name) = {}
    THEN [ok |-> TRUE, raised |-> FALSE,
          inv |-> inv \cup {GameServerInstance("201", name, status, ip, ports, t, NoHours)}]
    ELSE [ok |-> TRUE, raised |-> FALSE,
          inv |-> {IF r.gcp_instance_name = name
                   THEN updated_row(r, status, ip, gcp_instance_id, ports, t)
                   ELSE r : r \in inv}]

\* setup.update_game_server_status: True when the row was found and the commit
\* went through; False when there is no such row, and False again when the
\* store fails (a write error, or the unique index on gcp_instance_id): the
\* handler rolls back and swallows the error, nothing is raised
update_game_server_status(inv, name, status, ip, gcp_instance_id, ports, t, db_error) ==
    IF db_error \/ RowsNamed(inv, name) = {}
          \/ (gcp_instance_id # "" /\ IdTaken(inv, name, gcp_instance_id))
    THEN [ok |-> FALSE, raised |-> FALSE, inv |-> inv]
    ELSE [ok |-> TRUE, raised |-> FALSE,
          inv |-> {IF r.gcp_instance_name = name
                   THEN updated_row(r, status, ip, gcp_instance_id, ports, t)
                   ELSE r : r \in inv}]

\* setup.get_game_server_by_name: the row, or None (also on a storage error)
get_game_server_by_name(inv, name, db_error) ==
    IF db_error \/ RowsNamed(inv, name) = {} THEN Nothing
    ELSE Some(CHOOSE r \in inv : r.gcp_instance_name = name)

ActiveStatuses == {"PROVISIONING", "RUNNING", "STOPPING", "STARTING"}

\* setup.get_user_active_game_servers: [] on a storage error
get_user_active_game_servers(inv, owner, db_error) ==
    IF db_error THEN {}
    ELSE {r \in inv : r.discord_user_id = owner /\ r.status \in ActiveStatuses}

\* setup.get_all_running_servers: rows with auto-shutdown configured
get_all_running_servers(inv, db_error) ==
    IF db_error THEN {}
    ELSE {r \in inv : r.status \in {"RUNNING", "PROVISIONING", "STARTING"}
                      /\ r.auto_shutdown_hours # NoHours}

\* setup.remove_game_server: physical delete; False when absent or on error
remove_game_server(inv, name, db_error) ==
    IF db_error \/ RowsNamed(inv, name) = {}
    THEN [ok |-> FALSE, inv |-> inv]
    ELSE [ok |-> TRUE, inv |-> inv \ RowsNamed(inv, name)]

\* DBCog.get_last_command_timestamp: the newest timestamp of the user's rows of
\* that command, or None (also on a storage error)
get_last_command_timestamp(rows, user_id, command_name, db_error) ==
    LET mine == {i \in DOMAIN rows : rows[i].user_id = user_id
                                     /\ rows[i].command_name = command_name}
    IN IF db_error \/ mine = {} THEN Nothing
       ELSE Some(rows[CHOOSE i \in mine :
                        \A j \in mine : rows[j].timestamp <= rows[i].timestamp].timestamp)

(* ----------------------- templates -------------------------------------- *)
\* a key a template's port entry does not have
Absent == "<absent>"

\* The example template _load_game_templates writes when the file is missing.
\* A startup script is the sequence of its replacement fields, in order, each
\* with whether its format spec is one str.__format__ accepts: the example's
\* first field is {server_version:-LATEST_VERSION_HERE}.  additional_tags and
\* labels are Optional: the example has neither key.
minecraft_vanilla ==
    [default_ports |-> <<[port |-> 25565, protocol |-> "TCP"]>>,
     startup_script_template |-> Some(<<[field |-> "server_version", spec_ok |-> FALSE],
                                        [field |-> "max_ram", spec_ok |-> FALSE]>>),
     config_params |-> {"server_version", "max_ram", "min_ram", "eula_accepted",
                        "server_name", "difficulty", "pvp", "online_mode",
                        "mods_list_json", "config_file_url"},
     additional_tags |-> Nothing,
     labels |-> Nothing]

\* A template as config/game_server_templates.json may define it: two default
\* ports, a script with one plain field, extra tags and labels.
valheim ==
    [default_ports |-> <<[port |-> 2456, protocol |-> "udp"],
                         [port |-> 2457, protocol |-> Absent]>>,
     startup_script_template |-> Some(<<[field |-> "world", spec_ok |-> TRUE]>>),
     config_params |-> {},
     additional_tags |-> Some(<< <<"g","a","m","e">> >>),
     labels |-> Some([k \in {"tier"} |-> "games"])]

LoadedTemplates == [k \in {"minecraft_vanilla", "valheim"} |->
                       IF k = "valheim" THEN valheim ELSE minecraft_vanilla]

\* The same file with a valheim template whose additional_tags name the base
\* tag and whose labels use the keys of the default labels.
RelabelledTemplates ==
    [LoadedTemplates EXCEPT
        !["valheim"].additional_tags = Some(<< <<"d","i","s","c","o","r","d","-","b","o","t","-","v","m">> >>),
        !["valheim"].labels = Some([k \in {"tier", "created-by"} |->
                                       IF k = "tier" THEN "games" ELSE "ops-team"])]

\* str.upper() of a protocol name
upper(p) == CASE p = "tcp" -> "TCP" [] p = "udp" -> "UDP" [] OTHER -> p

\* json.loads(custom_params_json): a decode error, or the value's type and,
\* for an object, its keys
json_loads(text) ==
    CASE text = "{bad"              -> [error |-> TRUE,  type |-> "none",   keys |-> {}]
      [] text = "{\"world\":\"w1\"}" -> [error |-> FALSE, type |-> "object", keys |-> {"world"}]
      [] text = "[1]"               -> [error |-> FALSE, type |-> "array",  keys |-> {}]

\* str.format(**params): fields are replaced left to right; a field that is
\* not a key raises KeyError, a bad format spec raises ValueError
RECURSIVE format(_, _)
format(fields, params) ==
    IF fields = <<>> THEN "ok"
    ELSE IF Head(fields).field \notin params THEN "KeyError"
    ELSE IF ~Head(fields).spec_ok THEN "ValueError"
    ELSE format(Tail(fields), params)

(* ----------------------- the provider (GcpCog) -------------------------- *)
DefaultTag == <<"d","i","s","c","o","r","d","-","b","o","t","-","v","m">>
NatIp == "34.0.0.1"

\* what the provider does with one instance insert
VmOutcomes == {"ok_ip", "ok_no_ip", "insert_error", "op_timeout", "get_error"}

Instance(name, status, nat_ip, tags, labels) ==
    [name |-> name, status |-> status, nat_ip |-> nat_ip, tags |-> tags, labels |-> labels]

\* list(set(...)): the elements of a set in some order, each once
RECURSIVE list_of_set(_)
list_of_set(S) ==
    IF S = {} THEN <<>>
    ELSE LET x == CHOOSE x \in S : TRUE IN <<x>> \o list_of_set(S \ {x})

\* _create_vm_logic that returns the unfinished instance when the wait for the
\* insert operation times out, in place of raising: a mutation
_create_vm_logic_ReturnsOnTimeout(instances, instance_name, created_by_user_id, custom_tags, custom_labels, outcome) ==
    LET final_labels == custom_labels @@
                        [k \in {"discord-bot-managed", "created-by"} |->
                            IF k = "created-by" THEN created_by_user_id ELSE "true"]
        final_tags == IF custom_tags = {} THEN <<DefaultTag>>
                      ELSE list_of_set(Range(<<DefaultTag>> \o list_of_set(custom_tags)))
        request == [labels |-> final_labels, tags |-> final_tags]
        made(status, ip) == Instance(instance_name, status, ip, Range(final_tags), final_labels)
    IN IF outcome = "insert_error"
          \/ \E i \in instances : i.name = instance_name
       THEN [raised |-> TRUE, instances |-> instances, instance |-> Nothing,
             request |-> request]
       ELSE IF outcome = "op_timeout"
       THEN [raised |-> FALSE, instances |-> instances \cup {made("PROVISIONING", None)},
             instance |-> Some(made("PROVISIONING", None)), request |-> request]
       ELSE IF outcome = "get_error"
       THEN [raised |-> TRUE, instances |-> instances \cup {made("RUNNING", NatIp)},
             instance |-> Nothing, request |-> request]
       ELSE LET ip == IF outcome = "ok_ip" THEN NatIp ELSE None
            IN [raised |-> FALSE, instances |-> instances \cup {made("RUNNING", ip)},
                instance |-> Some(made("RUNNING", ip)), request |-> request]

\* GcpCog._create_vm_logic: returns the instance or raises.  The provider
\* refuses a second instance of a name.  request is the labels and tags of
\* instance_config, as they are sent with compute_client.insert.
_create_vm_logic(instances, instance_name, created_by_user_id, custom_tags, custom_labels, outcome) ==
    LET \* final_labels.update(custom_labels): a custom label replaces a
        \* default label of the same key
        final_labels == custom_labels @@
                        [k \in {"discord-bot-managed", "created-by"} |->
                            IF k = "created-by" THEN created_by_user_id ELSE "true"]
        final_tags == IF custom_tags = {} THEN <<DefaultTag>>
                      ELSE list_of_set(Range(<<DefaultTag>> \o list_of_set(custom_tags)))
        request == [labels |-> final_labels, tags |-> final_tags]
        made(status, ip) == Instance(instance_name, status, ip, Range(final_tags), final_labels)
    IN IF outcome = "insert_error"
          \/ \E i \in instances : i.name = instance_name
       THEN [raised |-> TRUE, instances |-> instances, instance |-> Nothing,
             request |-> request]
       ELSE IF outcome = "op_timeout"
       THEN [raised |-> TRUE, instances |-> instances \cup {made("PROVISIONING", None)},
             instance |-> Nothing, request |-> request]
       ELSE IF outcome = "get_error"
       THEN [raised |-> TRUE, instances |-> instances \cup {made("RUNNING", NatIp)},
             instance |-> Nothing, request |-> request]
       ELSE LET ip == IF outcome = "ok_ip" THEN NatIp ELSE None
            IN [raised |-> FALSE, instances |-> instances \cup {made("RUNNING", ip)},
                instance |-> Some(made("RUNNING", ip)), request |-> request]

\* GcpCog._open_port_logic: inserts the rule or raises.  The provider refuses
\* a second rule of a name.
_open_port_logic(rules, firewall_rule_name_, target_tag, port, protocol, provider_ok) ==
    IF upper(protocol) \notin {"TCP", "UDP"}
       \/ ~provider_ok
       \/ \E r \in rules : r.name = firewall_rule_name_
    THEN [raised |-> TRUE, rules |-> rules]
    ELSE [raised |-> FALSE,
          rules |-> rules \cup {[name |-> firewall_rule_name_, target_tags |-> {target_tag},
                                 port |-> port, protocol |-> upper(protocol)]}]

(* ----------------------- /gameserv_create ------------------------------- *)
MaxPorts == 2           \* the longest default_ports list of a template
MaxTemplateTags == 2    \* a create is not started on a template whose tag list is this long

\* the environment of one run of the handler: which calls fail
CreateEnvs ==
    [db_error : BOOLEAN, vm : VmOutcomes, port_ok : [1..MaxPorts -> BOOLEAN]]

\* The parts of the handler's last reply that depend on the run: what it opens
\* with (the success mark, the error mark, or the refusal), the ports it lists
\* as configured, and whether it says the template names no default port.
Message(kind, ports, no_ports_note) ==
    [kind |-> kind, ports |-> ports, no_ports_note |-> no_ports_note]

\* final_message (gameserver_cog.py:522-526)
final_message(opened_ports_info) ==
    Message("success", opened_ports_info, opened_ports_info = <<>>)

\* what one run of the handler leaves behind; registration is "none" until
\* step 5 is entered, then whether db_cog.register_game_server raised
CreateResult(outcome, remaining, calls, inv, instances, rules, templates) ==
    [outcome |-> outcome, remaining |-> remaining, calls |-> calls, inventory |-> inv,
     vms |-> instances, firewall_rules |-> rules, game_templates |-> templates,
     message |-> Message(outcome, <<>>, FALSE), registration |-> "none"]

\* the loop left at the first port whose rule cannot be created: a mutation
RECURSIVE open_default_ports_StopsAtFailure(_, _, _, _, _)
open_default_ports_StopsAtFailure(default_ports, i, instance_name, port_ok, acc) ==
    IF i > Len(default_ports) THEN acc
    ELSE LET port_info == default_ports[i]
             port_num == port_info.port
             port_proto == upper(IF port_info.protocol = Absent THEN "TCP"
                                 ELSE port_info.protocol)
             rule == firewall_rule_name(instance_name, port_num, port_proto)
             opened == _open_port_logic(acc.rules, rule, game_server_specific_tag(instance_name),
                                        port_num, port_proto, port_ok[i])
             next == [rules |-> opened.rules,
                      calls |-> Append(acc.calls, [call |-> "_open_port_logic", rule |-> rule,
                                                   port |-> port_num, raised |-> opened.raised]),
                      opened_ports_info |-> IF opened.raised THEN acc.opened_ports_info
                                            ELSE Append(acc.opened_ports_info,
                                                        [port |-> port_num, protocol |-> port_proto])]
         IN IF opened.raised THEN next
            ELSE open_default_ports_StopsAtFailure(default_ports, i + 1, instance_name,
                                                   port_ok, next)

\* the for-loop over template["default_ports"] (gameserver_cog.py:456-477):
\* a port whose rule cannot be created is logged and the loop goes on
RECURSIVE open_default_ports(_, _, _, _, _)
open_default_ports(default_ports, i, instance_name, port_ok, acc) ==
    IF i > Len(default_ports) THEN acc
    ELSE LET port_info == default_ports[i]
             port_num == port_info.port
             port_proto == upper(IF port_info.protocol = Absent THEN "TCP"
                                 ELSE port_info.protocol)
             rule == firewall_rule_name(instance_name, port_num, port_proto)
             opened == _open_port_logic(acc.rules, rule, game_server_specific_tag(instance_name),
                                        port_num, port_proto, port_ok[i])
         IN open_default_ports(default_ports, i + 1, instance_name, port_ok,
                [rules |-> opened.rules,
                 calls |-> Append(acc.calls, [call |-> "_open_port_logic", rule |-> rule,
                                              port |-> port_num, raised |-> opened.raised]),
                 opened_ports_info |-> IF opened.raised THEN acc.opened_ports_info
                                       ELSE Append(acc.opened_ports_info,
                                                   [port |-> port_num, protocol |-> port_proto])])

\* the ports_info argument of the registration (gameserver_cog.py:512): one
\* entry for every default port of the template
ports_info(template) ==
    [i \in DOMAIN template.default_ports |->
        [port |-> template.default_ports[i].port,
         protocol |-> upper(IF template.default_ports[i].protocol = Absent
                            THEN "TCP"
                            ELSE template.default_ports[i].protocol)]]

\* steps 2-5 of the handler, from the tag and label preparation on
\* (gameserver_cog.py:414-537)
provision(user, template_name, instance_name, auto_shutdown_hours, env) ==
    LET template == game_templates[template_name]
        tag == game_server_specific_tag(instance_name)
        \* template.get("additional_tags", []).append(tag): the template's own
        \* list when the key is there
        vm_custom_tags == IF template.additional_tags = Nothing THEN <<tag>>
                          ELSE Append(template.additional_tags[1], tag)
        \* template.get("labels", {}).update(...): the template's own dict
        \* when the key is there
        vm_custom_labels == [k \in {"game-template", "game-instance-name"} |->
                                IF k = "game-template" THEN template_name ELSE instance_name]
                            @@ (IF template.labels = Nothing THEN <<>> ELSE template.labels[1])
        templates1 == [game_templates EXCEPT ![template_name] =
                         [@ EXCEPT !.additional_tags = IF @ = Nothing THEN @
                                                       ELSE Some(vm_custom_tags),
                                   !.labels = IF @ = Nothing THEN @
                                              ELSE Some(vm_custom_labels)]]
        vm == _create_vm_logic(vms, instance_name, str(user), Range(vm_custom_tags),
                               vm_custom_labels, env.vm)
        calls1 == <<[call |-> "_create_vm_logic", instance_name |-> instance_name,
                     raised |-> vm.raised, request |-> vm.request]>>
    IN IF vm.raised
       THEN CreateResult("error", 0, calls1, inventory, vm.instances, firewall_rules, templates1)
       ELSE
       LET created_instance == vm.instance[1]
           ip_address == IF created_instance.nat_ip # None THEN created_instance.nat_ip
                         ELSE "N/A"
           ports == open_default_ports(template.default_ports, 1, instance_name, env.port_ok,
                        [rules |-> firewall_rules, calls |-> calls1,
                         opened_ports_info |-> <<>>])
           \* try: await db_cog.register_game_server(...) except Exception: log
           registered ==
               IF HasMethod("register_game_server")
               THEN register_game_server(inventory, user, created_instance.name,
                        instance_id(created_instance.name),
                        IF ip_address # "N/A" THEN "RUNNING" ELSE "PROVISIONING_FAILED_IP",
                        ip_address, ports_info(template), now, auto_shutdown_hours,
                        env.db_error)
               ELSE [raised |-> TRUE, inv |-> inventory]
       IN [CreateResult("success", 0, ports.calls, registered.inv, vm.instances, ports.rules,
                        templates1)
              EXCEPT !.message = final_message(ports.opened_ports_info),
                     !.registration = IF registered.raised THEN "raised" ELSE "ok"]

\* what is wrong with the custom parameters of a request, if anything: text
\* that json.loads rejects, or a placeholder of the startup script that neither
\* the template nor the parameters give a value (gameserver_cog.py:348-364)
params_defect(templates, template_name, custom_params_json) ==
    IF custom_params_json # "" /\ json_loads(custom_params_json).error THEN "json"
    ELSE IF /\ template_name \in DOMAIN templates
            /\ templates[template_name].startup_script_template # Nothing
            /\ custom_params_json # "" => json_loads(custom_params_json).type = "object"
            /\ format(templates[template_name].startup_script_template[1],
                      templates[template_name].config_params
                          \cup (IF custom_params_json = "" THEN {}
                                ELSE json_loads(custom_params_json).keys)) = "KeyError"
    THEN "placeholder"
    ELSE "none"

\* create_game_server that goes on to provision after reporting invalid JSON
\* (the return forgotten): a mutation
create_game_server_GoesOnAfterInvalidJson(user, template_name, instance_name, custom_params_json, auto_shutdown_hours, env) ==
    LET unchanged(outcome, remaining) ==
            CreateResult(outcome, remaining, <<>>, inventory, vms, firewall_rules, game_templates)
        user_id_str == str(user)
        max_active_vms == settings.max_active_vms_per_user
        cooldown_seconds == settings.vm_creation_cooldown_seconds
        last_creation_timestamp ==
            get_last_command_timestamp(ledger, user_id_str, "gameserv_create", env.db_error)
    IN IF ~valid_instance_name(instance_name) THEN unchanged("invalid_name", 0)
       ELSE IF ~settings.gcp_cog THEN unchanged("no_gcp_cog", 0)
       ELSE IF template_name \notin DOMAIN game_templates THEN unchanged("unknown_template", 0)
       ELSE IF max_active_vms > 0 /\ ~HasMethod("get_user_active_game_servers")
       THEN unchanged("AttributeError", 0)
       ELSE IF /\ max_active_vms > 0
               /\ Cardinality(get_user_active_game_servers(inventory, user_id_str, env.db_error))
                      >= max_active_vms
       THEN unchanged("quota_rejected", 0)
       ELSE IF /\ cooldown_seconds > 0
               /\ last_creation_timestamp # Nothing
               /\ now - last_creation_timestamp[1] < cooldown_seconds
       THEN unchanged("cooldown_rejected",
                      cooldown_seconds - (now - last_creation_timestamp[1]))
       ELSE
       LET template == game_templates[template_name]
           user_params == IF custom_params_json = "" THEN [error |-> FALSE, type |-> "object", keys |-> {}]
                          ELSE json_loads(custom_params_json)
           startup_params == template.config_params \cup user_params.keys
           startup_script == IF template.startup_script_template = Nothing THEN "ok"
                             ELSE format(template.startup_script_template[1], startup_params)
       IN IF user_params.error
          THEN provision(user, template_name, instance_name, auto_shutdown_hours, env)
          ELSE IF user_params.type # "object" THEN unchanged("error", 0)
          ELSE IF startup_script = "KeyError" THEN unchanged("missing_param", 0)
          ELSE IF startup_script # "ok" THEN unchanged("error", 0)
          ELSE provision(user, template_name, instance_name, auto_shutdown_hours, env)

\* GameServerCog.create_game_server
create_game_server(user, template_name, instance_name, custom_params_json, auto_shutdown_hours, env) ==
    LET unchanged(outcome, remaining) ==
            CreateResult(outcome, remaining, <<>>, inventory, vms, firewall_rules, game_templates)
        user_id_str == str(user)
        max_active_vms == settings.max_active_vms_per_user
        cooldown_seconds == settings.vm_creation_cooldown_seconds
        last_creation_timestamp ==
            get_last_command_timestamp(ledger, user_id_str, "gameserv_create", env.db_error)
    IN IF ~valid_instance_name(instance_name) THEN unchanged("invalid_name", 0)
       ELSE IF ~settings.gcp_cog THEN unchanged("no_gcp_cog", 0)
       ELSE IF template_name \notin DOMAIN game_templates THEN unchanged("unknown_template", 0)
       ELSE IF max_active_vms > 0 /\ ~HasMethod("get_user_active_game_servers")
       THEN unchanged("AttributeError", 0)
       ELSE IF /\ max_active_vms > 0
               /\ Cardinality(get_user_active_game_servers(inventory, user_id_str, env.db_error))
                      >= max_active_vms
       THEN unchanged("quota_rejected", 0)
       ELSE IF /\ cooldown_seconds > 0
               /\ last_creation_timestamp # Nothing
               /\ now - last_creation_timestamp[1] < cooldown_seconds
       THEN unchanged("cooldown_rejected",
                      cooldown_seconds - (now - last_creation_timestamp[1]))
       ELSE
       LET template == game_templates[template_name]
           user_params == IF custom_params_json = "" THEN [error |-> FALSE, type |-> "object", keys |-> {}]
                          ELSE json_loads(custom_params_json)
           startup_params == template.config_params \cup user_params.keys
           startup_script == IF template.startup_script_template = Nothing THEN "ok"
                             ELSE format(template.startup_script_template[1], startup_params)
       IN IF user_params.error THEN unchanged("invalid_json", 0)
          ELSE IF user_params.type # "object" THEN unchanged("error", 0)
          ELSE IF startup_script = "KeyError" THEN unchanged("missing_param", 0)
          ELSE IF startup_script # "ok" THEN unchanged("error", 0)
          ELSE provision(user, template_name, instance_name, auto_shutdown_hours, env)

(* ----------------------- permissions ------------------------------------ *)
\* permissions.has_game_admin_role: a bot owner, or a member who holds the Game
\* Admin role
has_game_admin_role(user, game_admin) == bot_is_owner(user) \/ game_admin

\* permissions.can_control_game_server, the check of /gameserv_start,
\* /gameserv_stop and /gameserv_delete: bot owners and game admins pass; for
\* anybody else the row is read with db_cog.get_game_server_by_name, which
\* raises AttributeError unless DBCog has that attribute
can_control_game_server(user, game_admin, instance_name, inv, db_error) ==
    IF bot_is_owner(user) THEN "allow"
    ELSE IF has_game_admin_role(user, game_admin) THEN "allow"
    ELSE IF ~HasMethod("get_game_server_by_name") THEN "AttributeError"
    ELSE LET server_info == get_game_server_by_name(inv, instance_name, db_error)
         IN IF server_info = Nothing THEN "CheckFailure"
            ELSE IF str(user) = server_info[1].discord_user_id THEN "allow"
            ELSE "CheckFailure"

(* ----------------------- start / stop / delete -------------------------- *)
\* what the provider does with one start, stop or delete of an instance
OpOutcomes == {"ok", "call_error", "op_error", "op_timeout"}

\* the instance operation of compute_client and wait_for_operation: raises when
\* the instance does not exist, the call or the operation fails, or the wait
\* times out; otherwise the instance is started, stopped or gone
instance_operation(instances, instance_name, action, outcome) ==
    IF outcome # "ok" \/ ~\E i \in instances : i.name = instance_name
    THEN [raised |-> TRUE, timeout |-> outcome = "op_timeout", instances |-> instances]
    ELSE [raised |-> FALSE, timeout |-> FALSE,
          instances |-> IF action = "delete"
                        THEN {i \in instances : i.name # instance_name}
                        ELSE {IF i.name # instance_name THEN i
                              ELSE IF action = "stop"
                                   THEN [i EXCEPT !.status = "TERMINATED", !.nat_ip = None]
                                   ELSE [i EXCEPT !.status = "RUNNING", !.nat_ip = NatIp]
                              : i \in instances}]

ControlResult(outcome, calls, inv, instances, rules) ==
    [outcome |-> outcome, calls |-> calls, inventory |-> inv,
     vms |-> instances, firewall_rules |-> rules]

\* GcpCog._control_vm: the inventory is not touched
_control_vm(instance_name, action, env) ==
    LET op == instance_operation(vms, instance_name, action, env.op)
        calls == <<[call |-> "compute_client", action |-> action,
                    instance_name |-> instance_name, raised |-> op.raised]>>
    IN ControlResult(IF ~op.raised THEN "success"
                     ELSE IF op.timeout THEN "timeout" ELSE "error",
                     calls, inventory, op.instances, firewall_rules)

\* GcpCog._list_firewall_rules_by_target_tag: [] when the listing fails
_list_firewall_rules_by_target_tag(rules, target_tag, list_error) ==
    IF list_error THEN {} ELSE {r \in rules : target_tag \in r.target_tags}

\* the loop over associated_firewall_rules (gameserver_cog.py:738-747): every
\* rule's deletion is tried; a failure is collected and the loop goes on
RECURSIVE delete_firewall_rules(_, _, _)
delete_firewall_rules(todo, fw_fail, acc) ==
    IF todo = {} THEN acc
    ELSE LET rule == CHOOSE r \in todo : TRUE
             raised == rule.name \in fw_fail
         IN delete_firewall_rules(todo \ {rule}, fw_fail,
                [rules |-> IF raised THEN acc.rules ELSE acc.rules \ {rule},
                 calls |-> Append(acc.calls, [call |-> "_delete_firewall_rule_logic",
                                              rule |-> rule.name, raised |-> raised])])

\* action -> (pending_status, final_status)  (gcp_action_map)
pending_status(action) ==
    CASE action = "start" -> "STARTING" [] action = "stop" -> "STOPPING"
      [] action = "delete" -> "DELETING"
final_status(action) ==
    CASE action = "start" -> "RUNNING" [] action = "stop" -> "TERMINATED"
      [] action = "delete" -> "DELETED"

\* GameServerCog._control_game_server.  Every db_cog.<function> call raises
\* AttributeError unless DBCog has that attribute; inside the try block the
\* exception handler runs, which itself calls db_cog.update_game_server_status.
_control_game_server(user, instance_name, action, env) ==
    LET \* except Exception (gameserver_cog.py:775-778)
        failed(calls, inv, instances, rules) ==
            IF ~HasMethod("update_game_server_status")
            THEN ControlResult("AttributeError", calls, inv, instances, rules)
            ELSE ControlResult("error", calls,
                     update_game_server_status(inv, instance_name, "ERROR", None, None, Nothing,
                                               now, env.db_error).inv,
                     instances, rules)
        server_info == get_game_server_by_name(inventory, instance_name, env.db_error)
        inv1 == update_game_server_status(inventory, instance_name, pending_status(action),
                                          None, None, Nothing, now, env.db_error).inv
        op == instance_operation(vms, instance_name, action, env.op)
        calls1 == <<[call |-> "compute_client", action |-> action,
                     instance_name |-> instance_name, raised |-> op.raised]>>
        new_ip == IF action = "start"
                  THEN (LET i == CHOOSE i \in op.instances : i.name = instance_name
                        IN i.nat_ip)
                  ELSE ""
        inv2 == update_game_server_status(inv1, instance_name, final_status(action),
                                          new_ip, None, Nothing, now, env.db_error).inv
        swept == delete_firewall_rules(
                     _list_firewall_rules_by_target_tag(firewall_rules,
                         game_server_specific_tag_delete(instance_name), env.list_error),
                     env.fw_fail, [rules |-> firewall_rules, calls |-> calls1])
    IN IF ~settings.gcp_cog
       THEN ControlResult("unavailable", <<>>, inventory, vms, firewall_rules)
       ELSE IF ~HasMethod("get_game_server_by_name")
       THEN failed(<<>>, inventory, vms, firewall_rules)
       ELSE IF server_info = Nothing
       THEN ControlResult("not_found", <<>>, inventory, vms, firewall_rules)
       ELSE IF str(user) # server_info[1].discord_user_id /\ ~bot_is_owner(user)
       THEN ControlResult("forbidden", <<>>, inventory, vms, firewall_rules)
       ELSE IF ~HasMethod("update_game_server_status")
       THEN failed(<<>>, inventory, vms, firewall_rules)
       ELSE IF op.raised THEN failed(calls1, inv1, op.instances, firewall_rules)
       ELSE IF action # "delete"
       THEN ControlResult("success", calls1, inv2, op.instances, firewall_rules)
       ELSE IF ~HasMethod("remove_game_server")
       THEN failed(swept.calls, inv2, op.instances, swept.rules)
       ELSE ControlResult("success", swept.calls,
                          remove_game_server(inv2, instance_name, env.db_error).inv,
                          op.instances, swept.rules)

(* ------------------------ invocations ---------------------------------- *)
Idle == [kind |-> "none"]

\* the last step was not one the properties look at
NoOp == [op |-> "none"]

Invocation(kind, user, name) ==
    [kind |-> kind, user |-> user, name |-> name, game_admin |-> FALSE,
     check |-> "pending", logged |-> FALSE, body |-> "pending"]

\* the invocation in flight needs nothing more: its check is decided, its
\* listener has run, and its body has run or was refused
Finished ==
    \/ itx.kind = "none"
    \/ /\ itx.kind = "slash"
       /\ itx.logged
       /\ itx.check = "deny" \/ itx.body = "done"
    \/ /\ itx.kind = "prefix"
       /\ itx.check = "deny" \/ itx.body = "done"

\* the clock advances; the timer of an open view fires before its deadline passes
Tick ==
    /\ ~(view.open /\ now - view.sent_at >= ViewTimeout)
    /\ \E d \in TickSteps :
         /\ now + d <= MaxTime
         /\ now' = now + d
    /\ last' = NoOp
    /\ UNCHANGED <<ledger, settings, wait, itx, world>>

\* the gateway delivers an application-command interaction
ReceiveInteraction(users, names) ==
    /\ Finished
    /\ Len(ledger) < MaxLedger
    /\ \E user \in users, name \in names :
         itx' = Invocation("slash", user, name)
    /\ last' = NoOp
    /\ UNCHANGED <<now, ledger, settings, wait, world>>

\* the commands decorated with permissions.can_control_game_server
\* (gameserver_cog.py:781, 788, 795)
OwnerOrAdminCommands == {"gameserv_start", "gameserv_stop", "gameserv_delete"}

\* the gateway delivers an application-command interaction of a guild member,
\* who holds the Game Admin role or does not (interaction.user.roles); the role
\* is an input of the commands whose check reads it
ReceiveMemberInteraction(users, names) ==
    /\ Finished
    /\ Len(ledger) < MaxLedger
    /\ \E user \in users, name \in names :
         \E game_admin \in IF name \in OwnerOrAdminCommands THEN BOOLEAN ELSE {FALSE} :
            itx' = [Invocation("slash", user, name) EXCEPT !.game_admin = game_admin]
    /\ last' = NoOp
    /\ UNCHANGED <<now, ledger, settings, wait, world>>

\* DBCog.on_interaction: the listener runs once for every interaction,
\* whatever the command's checks decide
on_interaction ==
    /\ itx.kind = "slash"
    /\ ~itx.logged
    /\ \E write_error \in BOOLEAN :
         /\ ledger' = IF itx.user # NoUser /\ itx.name # NoName
                      THEN log_usage(ledger, itx.user, itx.name, now, write_error)
                      ELSE ledger
         /\ last' = NoOp
    /\ itx' = [itx EXCEPT !.logged = TRUE]
    /\ UNCHANGED <<now, settings, wait, world>>

\* the @app_commands.check(..._rate_limit_check) of a slash command
AppCommandCheck ==
    /\ itx.kind = "slash"
    /\ itx.check = "pending"
    /\ \E db_error \in BOOLEAN :
         LET result == check_app_command_rate_limit(itx.user, itx.name, ledger, now,
                           settings.max_commands_per_minute,
                           settings.rate_limit_excluded_commands, db_error)
         IN /\ itx' = [itx EXCEPT !.check = result]
            /\ last' = [op |-> "check", path |-> "app", user |-> itx.user,
                        name |-> itx.name, db_error |-> db_error,
                        send_error |-> FALSE, result |-> result]
    /\ UNCHANGED <<now, ledger, settings, wait, world>>

\* the body of a slash command the model does not look into
OtherCommandBody ==
    /\ itx.kind = "slash"
    /\ itx.check = "allow"
    /\ itx.body = "pending"
    /\ itx.name \notin {"gameserv_create", "gameserv_delete", "gcp_delete_vm"}
    /\ itx' = [itx EXCEPT !.body = "done"]
    /\ last' = NoOp
    /\ UNCHANGED <<now, ledger, settings, wait, world>>

\* a prefixed command is invoked
ReceivePrefixed(users, names) ==
    /\ Finished
    /\ Len(ledger) < MaxLedger
    /\ \E user \in users, name \in names :
         itx' = Invocation("prefix", user, name)
    /\ last' = NoOp
    /\ UNCHANGED <<now, ledger, settings, wait, world>>

CogCheck ==
    /\ itx.kind = "prefix"
    /\ itx.check = "pending"
    /\ \E db_error \in BOOLEAN, send_error \in BOOLEAN :
         LET result == cog_check(itx.user, itx.name, ledger, now,
                           settings.max_commands_per_minute,
                           settings.rate_limit_excluded_commands, db_error, send_error)
         IN /\ itx' = [itx EXCEPT !.check = result]
            /\ last' = [op |-> "check", path |-> "cog", user |-> itx.user,
                        name |-> itx.name, db_error |-> db_error,
                        send_error |-> send_error, result |-> result]
    /\ UNCHANGED <<now, ledger, settings, wait, world>>

\* DBCog.on_command_completion: fires when the prefixed command's body has
\* completed without error
on_command_completion ==
    /\ itx.kind = "prefix"
    /\ itx.check = "allow"
    /\ itx.body = "pending"
    /\ \E write_error \in BOOLEAN :
         /\ ledger' = log_usage(ledger, itx.user, itx.name, now, write_error)
         /\ last' = NoOp
    /\ itx' = [itx EXCEPT !.body = "done", !.logged = TRUE]
    /\ UNCHANGED <<now, settings, wait, world>>

\* the prefixed command's body raises: on_command_error, nothing is logged
PrefixedCommandFails ==
    /\ itx.kind = "prefix"
    /\ itx.check = "allow"
    /\ itx.body = "pending"
    /\ itx' = [itx EXCEPT !.body = "done"]
    /\ last' = NoOp
    /\ UNCHANGED <<now, ledger, settings, wait, world>>

(* ----------------------- /gameserv_create: the action ------------------- *)
NoView == [open |-> FALSE]

\* inputs of /gameserv_create
TemplateNames == {"minecraft_vanilla", "valheim", "nope"}
InstanceNames == {"mc1", "My_Srv"}
CustomParams == {"", "{bad", "{\"world\":\"w1\"}", "[1]"}
HoursChoices == {NoHours, 2}

\* the body of /gameserv_create runs once its checks have passed
CreateGameServerIn(provider_envs, instance_names) ==
    /\ itx.kind = "slash"
    /\ itx.name = "gameserv_create"
    /\ itx.check = "allow"
    /\ itx.body = "pending"
    /\ \A k \in DOMAIN game_templates :
         game_templates[k].additional_tags # Nothing
             => Len(game_templates[k].additional_tags[1]) < MaxTemplateTags
    /\ \E template_name \in TemplateNames, instance_name \in instance_names,
          custom_params_json \in CustomParams, db_error \in BOOLEAN :
         \* the provider's answers and auto_shutdown_hours are inputs of the
         \* runs that reach the provider
         LET quiet == [db_error |-> db_error, vm |-> "ok_ip",
                       port_ok |-> [i \in 1..MaxPorts |-> TRUE]]
             probe == create_game_server(itx.user, template_name, instance_name,
                                         custom_params_json, NoHours, quiet)
             \* an answer is drawn for the port calls the run makes: one for
             \* each default port of the template, once the VM is created
             asked(e) == \A i \in 1..MaxPorts :
                            (\/ i > Len(game_templates[template_name].default_ports)
                             \/ e.vm \notin {"ok_ip", "ok_no_ip"}) => e.port_ok[i]
             envs == IF probe.calls = <<>> THEN {quiet}
                     ELSE {e \in provider_envs : e.db_error = db_error /\ asked(e)}
             hours == IF probe.calls = <<>> THEN {NoHours} ELSE HoursChoices
         IN \E env \in envs, auto_shutdown_hours \in hours :
              LET r == IF env = quiet /\ auto_shutdown_hours = NoHours THEN probe
                       ELSE create_game_server(itx.user, template_name, instance_name,
                                               custom_params_json, auto_shutdown_hours, env)
              IN /\ inventory' = r.inventory
                 /\ vms' = r.vms
                 /\ firewall_rules' = r.firewall_rules
                 /\ game_templates' = r.game_templates
                 /\ last' = [op |-> "create", user |-> itx.user,
                             template_name |-> template_name,
                             instance_name |-> instance_name,
                             outcome |-> r.outcome, remaining |-> r.remaining,
                             calls |-> r.calls, message |-> r.message,
                             registration |-> r.registration,
                             active_before |-> Cardinality({row \in inventory :
                                                   /\ row.discord_user_id = str(itx.user)
                                                   /\ row.status \in ActiveStatuses}),
                             db_error |-> db_error,
                             params_defect |-> params_defect(game_templates, template_name,
                                                             custom_params_json),
                             vm |-> IF r.calls # <<>> THEN env.vm ELSE "none"]
    /\ itx' = [itx EXCEPT !.body = "done"]
    /\ UNCHANGED <<now, ledger, settings, wait, view>>

\* names a user may type: the examples of the naming rule, the seed server's
\* name, names of 55, of 63 and of 64 characters, and the empty name
CandidateNames ==
    {"a", "my-server1", "mc1", Name63, Name55,
     "MyServer", "1server", "server-", "my_server", "My_Srv", Name64, ""}

\* the command with every answer the provider can give
CreateGameServer == CreateGameServerIn(CreateEnvs, InstanceNames)

\* the provider creates every VM with an address and opens every port
WorkingProvider ==
    {e \in CreateEnvs : e.vm = "ok_ip" /\ \A i \in 1..MaxPorts : e.port_ok[i]}

(* ----------------------- /gameserv_delete, /gcp_delete_vm --------------- *)
\* inputs of the delete commands
DeleteCommands == {"gameserv_delete", "gcp_delete_vm"}
DeleteNames == {"mc1", "gone"}

\* the environment of one run after the confirmation: which calls fail
DeleteEnvs(rules) ==
    [db_error : BOOLEAN, op : OpOutcomes, list_error : BOOLEAN,
     fw_fail : SUBSET {r.name : r \in rules}]

\* ConfirmDeleteView / ConfirmDeleteVMView as sent: confirmed is None.
\* clicked_by remembers the user of the button interaction that stopped it.
ConfirmDeleteView(command, original_user, instance_name, t) ==
    [open |-> TRUE, command |-> command, original_user |-> original_user,
     instance_name |-> instance_name, confirmed |-> "None", sent_at |-> t,
     clicked_by |-> Nothing]

\* GcpCog.delete_vm after view.wait(): the delete goes on with the keyword
\* sentinel True only
delete_vm_DeletesUnlessCancelled(confirmed, instance_name, env) ==
    IF confirmed # "False" THEN _control_vm(instance_name, "delete", env)
    ELSE ControlResult("cancelled", <<>>, inventory, vms, firewall_rules)

delete_vm(confirmed, instance_name, env) ==
    IF confirmed = "True" THEN _control_vm(instance_name, "delete", env)
    ELSE ControlResult(IF confirmed = "False" THEN "cancelled" ELSE "timed_out",
                       <<>>, inventory, vms, firewall_rules)

\* GameServerCog.delete_game_server after view.wait()
delete_game_server(confirmed, user, instance_name, env) ==
    IF confirmed = "True" THEN _control_game_server(user, instance_name, "delete", env)
    ELSE ControlResult(IF confirmed = "False" THEN "cancelled" ELSE "timed_out",
                       <<>>, inventory, vms, firewall_rules)

\* the first half of both delete commands.  /gameserv_delete runs its
\* permission check first (gameserver_cog.py:795); /gcp_delete_vm is invoked by
\* a VM operator.  Then the confirmation is sent and the handler waits for the
\* view to stop.
SendConfirmation ==
    /\ itx.kind = "slash"
    /\ itx.name \in DeleteCommands
    /\ itx.check = "allow"
    /\ itx.body = "pending"
    /\ \E instance_name \in DeleteNames, db_error \in BOOLEAN :
         LET permission == IF itx.name = "gameserv_delete"
                           THEN can_control_game_server(itx.user, itx.game_admin,
                                                        instance_name, inventory, db_error)
                           ELSE "allow"
         IN IF permission = "allow"
            THEN /\ view' = ConfirmDeleteView(itx.name, itx.user, instance_name, now)
                 /\ itx' = [itx EXCEPT !.body = "waiting"]
                 /\ last' = NoOp
            ELSE /\ view' = view
                 /\ itx' = [itx EXCEPT !.body = "done"]
                 /\ last' = [op |-> "permission", command |-> itx.name, user |-> itx.user,
                             instance_name |-> instance_name, result |-> permission]
    /\ UNCHANGED <<now, ledger, settings, wait, inventory, vms, firewall_rules, game_templates>>

\* somebody presses a button of the open view: interaction_check, then
\* confirm_button or cancel_button
ButtonClick ==
    /\ view.open
    /\ \E user \in UserIds, button \in {"confirm", "cancel"} :
         LET accepted == user = view.original_user
         IN /\ view' = IF ~accepted THEN view
                       ELSE [view EXCEPT !.confirmed = IF button = "confirm" THEN "True"
                                                       ELSE "False",
                                         !.clicked_by = Some(user),
                                         !.open = FALSE]
            /\ last' = [op |-> "click", user |-> user, button |-> button,
                        accepted |-> accepted]
    /\ UNCHANGED <<now, ledger, settings, wait, itx, inventory, vms, firewall_rules, game_templates>>

\* the view's timer fires: on_timeout, and view.wait() returns
on_timeout ==
    /\ view.open
    /\ now - view.sent_at >= ViewTimeout
    /\ view' = [view EXCEPT !.open = FALSE]
    /\ last' = NoOp
    /\ UNCHANGED <<now, ledger, settings, wait, itx, inventory, vms, firewall_rules, game_templates>>

\* the second half of both delete commands, after view.wait()
ResumeDelete ==
    /\ itx.kind = "slash"
    /\ itx.body = "waiting"
    /\ ~view.open
    /\ LET tagged == _list_firewall_rules_by_target_tag(firewall_rules,
                         game_server_specific_tag_delete(view.instance_name), FALSE)
           quiet == [db_error |-> FALSE, op |-> "ok", list_error |-> FALSE, fw_fail |-> {}]
           \* the provider's and the store's answers are inputs of the runs
           \* that go on; _control_vm uses the provider's answer only
           envs == IF view.confirmed # "True" THEN {quiet}
                   ELSE IF view.command = "gcp_delete_vm"
                   THEN {e \in DeleteEnvs({}) : ~e.db_error /\ ~e.list_error}
                   ELSE DeleteEnvs(tagged)
       IN \E env \in envs :
            LET r == IF view.command = "gcp_delete_vm"
                     THEN delete_vm(view.confirmed, view.instance_name, env)
                     ELSE delete_game_server(view.confirmed, itx.user, view.instance_name, env)
            IN /\ inventory' = r.inventory
               /\ vms' = r.vms
               /\ firewall_rules' = r.firewall_rules
               /\ last' = [op |-> "delete", command |-> view.command, user |-> itx.user,
                           instance_name |-> view.instance_name,
                           game_admin |-> itx.game_admin,
                           confirmed |-> view.confirmed,
                           clicked_by |-> view.clicked_by,
                           waited |-> now - view.sent_at,
                           vm_before |-> \E i \in vms : i.name = view.instance_name,
                           outcome |-> r.outcome,
                           calls |-> r.calls, env |-> env,
                           tagged_before |-> {rule.name : rule \in tagged},
                           rows_before |-> RowsNamed(inventory, view.instance_name)]
    /\ itx' = [itx EXCEPT !.body = "done"]
    /\ view' = NoView
    /\ UNCHANGED <<now, ledger, settings, wait, game_templates>>

(* --------------------- start, stop and the sweep ------------------------ *)
ControlCommands == {"gameserv_start", "gameserv_stop"}
ControlNames == {"mc1", "srv-2", "gone"}
ControlEnvs == [db_error : BOOLEAN, op : OpOutcomes, list_error : {FALSE}, fw_fail : {{}}]

\* start_game_server / stop_game_server: the permission check
\* (gameserver_cog.py:781, 788), then the body, which is _control_game_server
ControlGameServer ==
    /\ itx.kind = "slash"
    /\ itx.name \in ControlCommands
    /\ itx.check = "allow"
    /\ itx.body = "pending"
    /\ \E instance_name \in ControlNames, db_error \in BOOLEAN :
         LET action == IF itx.name = "gameserv_start" THEN "start" ELSE "stop"
             permission == can_control_game_server(itx.user, itx.game_admin, instance_name,
                                                   inventory, db_error)
             quiet == [db_error |-> db_error, op |-> "ok", list_error |-> FALSE,
                       fw_fail |-> {}]
             \* the provider's answer is an input of the runs whose check passed
             envs == IF permission = "allow" THEN {e \in ControlEnvs : e.db_error = db_error}
                     ELSE {quiet}
         IN \E env \in envs :
            LET r == IF permission = "allow"
                     THEN _control_game_server(itx.user, instance_name, action, env)
                     ELSE ControlResult(permission, <<>>, inventory, vms, firewall_rules)
            IN
            /\ inventory' = r.inventory
            /\ vms' = r.vms
            /\ firewall_rules' = r.firewall_rules
            /\ last' = [op |-> "control", action |-> action, user |-> itx.user,
                        game_admin |-> itx.game_admin, permission |-> permission,
                        instance_name |-> instance_name, outcome |-> r.outcome,
                        calls |-> r.calls, env |-> env,
                        vm_before |-> \E i \in vms : i.name = instance_name,
                        rows_before |-> RowsNamed(inventory, instance_name)]
    /\ itx' = [itx EXCEPT !.body = "done"]
    /\ UNCHANGED <<now, ledger, settings, wait, game_templates, view>>

\* datetime.timedelta(hours=1), in seconds of the clock
SecondsPerHour == 3600

\* the test of auto_shutdown_task on one row (gameserver_cog.py:938-958)
overdue(server, t) ==
    /\ server.status = "RUNNING"
    /\ server.auto_shutdown_hours # NoHours
    /\ t - server.last_status_update > server.auto_shutdown_hours * SecondsPerHour

\* the loop of auto_shutdown_task over running_servers: an overdue server is
\* stopped at the provider, marked STOPPING_AUTO, and marked TERMINATED with
\* its address cleared once the stop completed; any failure of the stop marks
\* it ERROR_AUTO_STOP and the loop goes on
RECURSIVE stop_overdue_servers(_, _, _, _)
stop_overdue_servers(todo, t, env, acc) ==
    IF todo = {} THEN acc
    ELSE LET server == CHOOSE r \in todo : TRUE
             name == server.gcp_instance_name
             op == instance_operation(acc.vms, name, "stop", env.op)
             marked == IF env.op = "call_error" THEN acc.inventory
                       ELSE update_game_server_status(acc.inventory, name, "STOPPING_AUTO",
                                                      None, None, Nothing, t, env.db_error).inv
             ended == IF op.raised
                      THEN update_game_server_status(marked, name, "ERROR_AUTO_STOP",
                                                     None, None, Nothing, t, env.db_error).inv
                      ELSE update_game_server_status(marked, name, "TERMINATED",
                                                     "", None, Nothing, t, env.db_error).inv
         IN stop_overdue_servers(todo \ {server}, t, env,
                IF ~overdue(server, t) THEN acc
                ELSE ControlResult("swept",
                         Append(acc.calls, [call |-> "compute_client", action |-> "stop",
                                            instance_name |-> name, raised |-> op.raised]),
                         ended, op.instances, acc.firewall_rules))

\* GameServerCog.auto_shutdown_task: one run of the loop body.  The call of
\* db_cog.get_all_running_servers raises AttributeError unless DBCog has that
\* attribute; the outer handler logs it and the run ends.
auto_shutdown_task(t, env) ==
    IF ~settings.gcp_cog
    THEN ControlResult("unavailable", <<>>, inventory, vms, firewall_rules)
    ELSE IF ~HasMethod("get_all_running_servers")
    THEN ControlResult("AttributeError", <<>>, inventory, vms, firewall_rules)
    ELSE LET running_servers == get_all_running_servers(inventory, env.db_error)
         IN IF running_servers = {}
            THEN ControlResult("none_running", <<>>, inventory, vms, firewall_rules)
            ELSE IF ~HasMethod("update_game_server_status")
                    /\ \E r \in running_servers : overdue(r, t)
            THEN ControlResult("AttributeError", <<>>, inventory, vms, firewall_rules)
            ELSE stop_overdue_servers(running_servers, t, env,
                     ControlResult("swept", <<>>, inventory, vms, firewall_rules))

\* the background loop fires (every 10 minutes, first when the bot is ready)
AutoShutdownSweep ==
    /\ LET quiet == [db_error |-> FALSE, op |-> "ok"]
           \* the provider's and the store's answers are inputs of the runs
           \* that reach them
           envs == IF settings.gcp_cog /\ HasMethod("get_all_running_servers")
                   THEN [db_error : BOOLEAN, op : OpOutcomes] ELSE {quiet}
       IN \E env \in envs :
            LET r == auto_shutdown_task(now, env)
            IN /\ inventory' = r.inventory
               /\ vms' = r.vms
               /\ firewall_rules' = r.firewall_rules
               /\ last' = [op |-> "sweep", outcome |-> r.outcome, calls |-> r.calls,
                           env |-> env,
                           overdue_before |-> {row.gcp_instance_name :
                                                 row \in {x \in inventory : overdue(x, now)}}]
    /\ UNCHANGED <<now, ledger, settings, wait, itx, game_templates, view>>

(* ------------------ the inventory functions, called directly ------------ *)
\* the ports of a registered server
SeedPorts == <<[port |-> 25565, protocol |-> "TCP"]>>
\* arguments the functions are applied to
StoreNames == {"mc1", "gone"}
RegisterNames == {"mc1", "srv-2"}
StatusChoices == {"TERMINATED"}
IpChoices == {None, "", NatIp}
IdChoices == {None, "", instance_id("gone"), instance_id("srv-2")}
PortsChoices == {Nothing, Some(<<>>)}

\* await register_game_server(...)
RegisterGameServer ==
    /\ \E name \in RegisterNames, gcp_instance_id \in IdChoices \ {""}, db_error \in BOOLEAN :
         LET r == register_game_server(inventory, 201, name, gcp_instance_id, "RUNNING",
                                       NatIp, SeedPorts, now, NoHours, db_error)
         IN /\ inventory' = r.inv
            /\ last' = [op |-> "register", name |-> name,
                        gcp_instance_id |-> gcp_instance_id,
                        db_error |-> db_error, raised |-> r.raised]
    /\ UNCHANGED <<now, ledger, settings, wait, itx, vms, firewall_rules, game_templates, view>>

\* await update_game_server_status(...)
UpdateGameServerStatus ==
    /\ \E name \in StoreNames, status \in StatusChoices, ip \in IpChoices,
          gcp_instance_id \in IdChoices, ports \in PortsChoices, db_error \in BOOLEAN :
         LET r == update_game_server_status(inventory, name, status, ip, gcp_instance_id,
                                            ports, now, db_error)
         IN /\ inventory' = r.inv
            /\ last' = [op |-> "update_status", name |-> name, status |-> status,
                        ip |-> ip, gcp_instance_id |-> gcp_instance_id, ports |-> ports,
                        db_error |-> db_error, ok |-> r.ok, raised |-> r.raised]
    /\ UNCHANGED <<now, ledger, settings, wait, itx, vms, firewall_rules, game_templates, view>>

\* await remove_game_server(...)
RemoveGameServer ==
    /\ \E name \in StoreNames, db_error \in BOOLEAN :
         LET r == remove_game_server(inventory, name, db_error)
         IN /\ inventory' = r.inv
            /\ last' = [op |-> "remove", name |-> name, db_error |-> db_error, ok |-> r.ok]
    /\ UNCHANGED <<now, ledger, settings, wait, itx, vms, firewall_rules, game_templates, view>>

(* ------------------- GcpCog.wait_for_operation -------------------------- *)
\* asyncio.sleep(5): the pause between two polls, and what a pause can last
\* once the event loop is busy
PollInterval == 5
SleepDurations == {PollInterval, PollInterval + 1}
\* timeout_seconds: the default, the value the sweep passes, and two small ones
DefaultOperationTimeout == 300
SweepOperationTimeout == 180
TimeoutChoices == {0, 12, SweepOperationTimeout, DefaultOperationTimeout}
\* what operations_client.get answers to one poll: an operation that is
\* RUNNING, DONE or DONE with an error, or the call itself raises
OperationAnswers == {"RUNNING", "DONE", "DONE_error", "api_error"}
\* the loop clock is followed up to this reading; no call gets that far
MaxLoopTime == 320

NoWait == [pc |-> "idle"]

\* one turn of the loop without the timeout test: a mutation
wait_for_operation_NoTimeout(answer, elapsed, timeout_seconds) ==
    CASE answer = "api_error" -> "ApiError"
      [] answer = "DONE_error" -> "Exception"
      [] answer = "DONE" -> "return"
      [] OTHER -> "sleep"

\* one turn of the loop in which an error of operations_client.get is caught
\* and the poll is tried again after the pause: a mutation
wait_for_operation_RetriesApiError(answer, elapsed, timeout_seconds) ==
    CASE answer = "api_error" -> "sleep"
      [] answer = "DONE_error" -> "Exception"
      [] answer = "DONE" -> "return"
      [] elapsed >= timeout_seconds -> "TimeoutError"
      [] OTHER -> "sleep"

\* one turn of the loop of wait_for_operation: what it does with the answer
\* of the poll and the time elapsed since the call
wait_for_operation(answer, elapsed, timeout_seconds) ==
    CASE answer = "api_error" -> "ApiError"
      [] answer = "DONE_error" -> "Exception"
      [] answer = "DONE" -> "return"
      [] elapsed >= timeout_seconds -> "TimeoutError"
      [] OTHER -> "sleep"

\* what _create_vm_logic makes of the end of the wait: the instance is fetched
\* when an operation came back, anything else is raised to the caller
create_vm_after_wait(w) ==
    CASE w.pc = "raised" -> w.exc
      [] w.pc = "returned" /\ w.result = "operation" -> "get"
      [] w.pc = "returned" -> "Exception"

\* wait_for_operation is called; without an operations client it returns None
\* at once
CallWaitForOperation ==
    /\ wait.pc = "idle"
    /\ \E timeout_seconds \in TimeoutChoices, operations_client \in BOOLEAN :
         wait' = IF operations_client
                 THEN [pc |-> "poll", start_time |-> 0, loop_time |-> 0,
                       timeout_seconds |-> timeout_seconds, polls |-> 0,
                       seen_done |-> FALSE, answer |-> "none"]
                 ELSE [pc |-> "returned", result |-> "None", polls |-> 0,
                       seen_done |-> FALSE, answer |-> "none"]
    /\ last' = NoOp
    /\ UNCHANGED <<now, ledger, settings, itx, world>>

\* operations_client.get and the tests that follow it
PollOperation ==
    /\ wait.pc = "poll"
    /\ \E answer \in OperationAnswers :
         LET step == wait_for_operation(answer, wait.loop_time - wait.start_time,
                                        wait.timeout_seconds)
             polled == [wait EXCEPT !.polls = @ + 1,
                                    !.seen_done = @ \/ answer # "RUNNING",
                                    !.answer = answer]
         IN  wait' = CASE step = "sleep" -> [polled EXCEPT !.pc = "sleep"]
                       [] step = "return" ->
                            [pc |-> "returned", result |-> "operation",
                             polls |-> polled.polls, seen_done |-> TRUE,
                             answer |-> answer]
                       [] OTHER ->
                            [pc |-> "raised", exc |-> step, polls |-> polled.polls,
                             seen_done |-> polled.seen_done, answer |-> answer,
                             elapsed |-> wait.loop_time - wait.start_time,
                             timeout_seconds |-> wait.timeout_seconds]
    /\ last' = NoOp
    /\ UNCHANGED <<now, ledger, settings, itx, world>>

\* await asyncio.sleep(5): the loop clock has advanced when the call resumes
Sleep ==
    /\ wait.pc = "sleep"
    /\ \E d \in SleepDurations :
         /\ wait.loop_time + d <= MaxLoopTime
         /\ wait' = [wait EXCEPT !.pc = "poll", !.loop_time = @ + d]
    /\ last' = NoOp
    /\ UNCHANGED <<now, ledger, settings, itx, world>>

(* ------------------------ specifications -------------------------------- *)
Init ==
    /\ now = 0
    /\ ledger = <<>>
    /\ settings \in [max_commands_per_minute : MaxPerMinuteChoices,
                   rate_limit_excluded_commands : ExcludedChoices,
                   max_active_vms_per_user : {DefaultMaxActiveVms},
                   vm_creation_cooldown_seconds : {DefaultCooldown},
                   gcp_cog : {TRUE}]
    /\ itx = Idle
    /\ last = NoOp
    /\ inventory = {}
    /\ vms = {}
    /\ firewall_rules = {}
    /\ game_templates = LoadedTemplates
    /\ view = NoView
    /\ wait = NoWait

\* slash commands guarded by the rate-limit check only (admin_cog.py:80), and
\* the prefixed commands (admin_cog.py:74, pterodactyl_cog.py:27)
SlashCommands == {"admin_test", NoName}
PrefixedCommands == {"ping", "pterolistservers"}

Next ==
    \/ Tick
    \/ ReceiveInteraction(InteractionUsers, SlashCommands)
    \/ on_interaction
    \/ AppCommandCheck
    \/ OtherCommandBody
    \/ ReceivePrefixed(UserIds, PrefixedCommands)
    \/ CogCheck
    \/ on_command_completion
    \/ PrefixedCommandFails

Spec == Init /\ [][Next]_vars

\* Rows, instances and rules the store and the provider hold when the bot
\* starts: two servers of user 201.
SeedRows ==
    {GameServerInstance("201", "mc1", "RUNNING", NatIp, Some(SeedPorts), 0, NoHours),
     GameServerInstance("201", "srv-2", "STOPPING", NatIp, Some(SeedPorts), 0, 2)}
SeedInstance(name, status) ==
    Instance(name, status, NatIp, {DefaultTag, game_server_specific_tag(name)},
             [k \in {"discord-bot-managed", "created-by"} |->
                 IF k = "created-by" THEN "201" ELSE "true"])
SeedVms == {SeedInstance("mc1", "RUNNING"), SeedInstance("srv-2", "RUNNING")}
SeedRule(name, port) ==
    [name |-> firewall_rule_name(name, port, "TCP"),
     target_tags |-> {game_server_specific_tag(name)}, port |-> port, protocol |-> "TCP"]
SeedRules == {SeedRule("mc1", 25565), SeedRule("srv-2", 25565)}

InitCreate ==
    /\ now = 0
    /\ ledger = <<>>
    /\ settings \in {c \in [max_commands_per_minute : {DefaultMaxPerMinute},
                        rate_limit_excluded_commands : {DefaultExcluded},
                        max_active_vms_per_user : MaxActiveChoices,
                        vm_creation_cooldown_seconds : CooldownChoices,
                        gcp_cog : BOOLEAN] :
                     /\ ~c.gcp_cog => (c.max_active_vms_per_user > 0
                                       /\ c.vm_creation_cooldown_seconds = 0)
                     /\ c.max_active_vms_per_user > 0
                            => (c.gcp_cog <=> c.vm_creation_cooldown_seconds > 0)}
    /\ itx = Idle
    /\ last = NoOp
    /\ \/ inventory = {} /\ vms = {} /\ firewall_rules = {}
       \/ inventory = SeedRows /\ vms = SeedVms /\ firewall_rules = SeedRules
    /\ game_templates = LoadedTemplates
    /\ view = NoView
    /\ wait = NoWait

NextCreate ==
    \/ Tick
    \/ ReceiveInteraction(UserIds \ AppOwnerIds, {"gameserv_create"})
    \/ on_interaction
    \/ AppCommandCheck
    \/ CreateGameServer

SpecCreate == InitCreate /\ [][NextCreate]_vars

\* The same requests, sent while the provider answers every call successfully.
NextCreateWorking ==
    \/ Tick
    \/ ReceiveInteraction(UserIds \ AppOwnerIds, {"gameserv_create"})
    \/ on_interaction
    \/ AppCommandCheck
    \/ CreateGameServerIn(WorkingProvider, InstanceNames)

SpecCreateWorking == InitCreate /\ [][NextCreateWorking]_vars

\* The create requests of users who have not used the command before: a request
\* arrives while the ledger is empty.
ReceiveFirstCreate ==
    /\ ledger = <<>>
    /\ ReceiveInteraction(UserIds \ AppOwnerIds, {"gameserv_create"})

NextFirstCreate ==
    \/ Tick
    \/ ReceiveFirstCreate
    \/ on_interaction
    \/ AppCommandCheck
    \/ CreateGameServer

SpecFirstCreate == InitCreate /\ [][NextFirstCreate]_vars

\* The create command once the quota and the cooldown are switched off, which
\* is when its requests reach the provider; every answer of the provider and of
\* the store is drawn.  No limit of these runs depends on the clock, which
\* stands still.
InitProvision ==
    /\ now = 0
    /\ ledger = <<>>
    /\ settings = [max_commands_per_minute |-> DefaultMaxPerMinute,
                   rate_limit_excluded_commands |-> DefaultExcluded,
                   max_active_vms_per_user |-> 0,
                   vm_creation_cooldown_seconds |-> 0,
                   gcp_cog |-> TRUE]
    /\ itx = Idle
    /\ last = NoOp
    /\ \/ inventory = {} /\ vms = {} /\ firewall_rules = {}
       \/ inventory = SeedRows /\ vms = SeedVms /\ firewall_rules = SeedRules
    /\ game_templates \in {LoadedTemplates, RelabelledTemplates}
    /\ view = NoView
    /\ wait = NoWait

NextProvision ==
    \/ ReceiveInteraction(UserIds \ AppOwnerIds, {"gameserv_create"})
    \/ on_interaction
    \/ AppCommandCheck
    \/ CreateGameServer

SpecProvision == InitProvision /\ [][NextProvision]_vars

\* The same command with every candidate name, while the provider answers every
\* call successfully.
NextNames ==
    \/ ReceiveInteraction(UserIds \ AppOwnerIds, {"gameserv_create"})
    \/ on_interaction
    \/ AppCommandCheck
    \/ CreateGameServerIn(WorkingProvider, CandidateNames)

\* the templates file as shipped: the naming rule does not depend on it
InitNames == InitProvision /\ game_templates = LoadedTemplates

SpecNames == InitNames /\ [][NextNames]_vars

InitDelete ==
    /\ now = 0
    /\ ledger = <<>>
    /\ settings = [max_commands_per_minute |-> DefaultMaxPerMinute,
                   rate_limit_excluded_commands |-> DefaultExcluded,
                   max_active_vms_per_user |-> DefaultMaxActiveVms,
                   vm_creation_cooldown_seconds |-> DefaultCooldown,
                   gcp_cog |-> TRUE]
    /\ itx = Idle
    /\ last = NoOp
    /\ inventory = SeedRows
    /\ vms = SeedVms
    /\ firewall_rules = SeedRules
    /\ game_templates = LoadedTemplates
    /\ view = NoView
    /\ wait = NoWait

NextDelete ==
    \/ Tick
    \/ ReceiveMemberInteraction(UserIds \ AppOwnerIds, DeleteCommands)
    \/ on_interaction
    \/ AppCommandCheck
    \/ SendConfirmation
    \/ ButtonClick
    \/ on_timeout
    \/ ResumeDelete

SpecDelete == InitDelete /\ [][NextDelete]_vars

\* The control commands and the sweep, over a server of user 201 and a server
\* of another user; the first one has run for more than its hour of
\* auto-shutdown delay.
ControlSeedRows ==
    {GameServerInstance("201", "mc1", "RUNNING", NatIp, Some(SeedPorts), 0 - SecondsPerHour, 1),
     GameServerInstance("305", "srv-2", "STOPPING", NatIp, Some(SeedPorts), 0, 2)}

InitControl ==
    /\ now = 0
    /\ ledger = <<>>
    /\ settings = [max_commands_per_minute |-> DefaultMaxPerMinute,
                   rate_limit_excluded_commands |-> DefaultExcluded,
                   max_active_vms_per_user |-> DefaultMaxActiveVms,
                   vm_creation_cooldown_seconds |-> DefaultCooldown,
                   gcp_cog |-> TRUE]
    /\ itx = Idle
    /\ last = NoOp
    /\ inventory = ControlSeedRows
    /\ vms = SeedVms
    /\ firewall_rules = SeedRules
    /\ game_templates = LoadedTemplates
    /\ view = NoView
    /\ wait = NoWait

NextControl ==
    \/ Tick
    \/ ReceiveMemberInteraction(UserIds \ AppOwnerIds, OwnerOrAdminCommands)
    \/ on_interaction
    \/ AppCommandCheck
    \/ ControlGameServer
    \/ SendConfirmation
    \/ ButtonClick
    \/ on_timeout
    \/ ResumeDelete
    \/ AutoShutdownSweep

SpecControl == InitControl /\ [][NextControl]_vars

\* The inventory functions applied in any order, by any caller, to the rows of
\* the two seed servers.
InitInventory ==
    /\ now = 0
    /\ ledger = <<>>
    /\ settings = [max_commands_per_minute |-> DefaultMaxPerMinute,
                   rate_limit_excluded_commands |-> DefaultExcluded,
                   max_active_vms_per_user |-> DefaultMaxActiveVms,
                   vm_creation_cooldown_seconds |-> DefaultCooldown,
                   gcp_cog |-> TRUE]
    /\ itx = Idle
    /\ last = NoOp
    /\ inventory = SeedRows
    /\ vms = SeedVms
    /\ firewall_rules = SeedRules
    /\ game_templates = LoadedTemplates
    /\ view = NoView
    /\ wait = NoWait

NextInventory ==
    \/ Tick
    \/ RegisterGameServer
    \/ UpdateGameServerStatus
    \/ RemoveGameServer

SpecInventory == InitInventory /\ [][NextInventory]_vars

\* One call of wait_for_operation. The event loop resumes a coroutine whose
\* await has completed, so a poll or a pause that is due is eventually taken.
InitWait ==
    /\ now = 0
    /\ ledger = <<>>
    /\ settings = [max_commands_per_minute |-> DefaultMaxPerMinute,
                   rate_limit_excluded_commands |-> DefaultExcluded,
                   max_active_vms_per_user |-> DefaultMaxActiveVms,
                   vm_creation_cooldown_seconds |-> DefaultCooldown,
                   gcp_cog |-> TRUE]
    /\ itx = Idle
    /\ last = NoOp
    /\ inventory = {}
    /\ vms = {}
    /\ firewall_rules = {}
    /\ game_templates = LoadedTemplates
    /\ view = NoView
    /\ wait = NoWait

NextWait ==
    \/ CallWaitForOperation
    \/ PollOperation
    \/ Sleep

SpecWait == InitWait /\ [][NextWait]_vars /\ WF_vars(PollOperation) /\ WF_vars(Sleep)

(* ======================= properties: rate limiter ======================= *)
\* the caller's rows that are at most one minute old at the time of the check
RecentRows(user) ==
    {i \in DOMAIN ledger : ledger[i].user_id = str(user) /\ now - ledger[i].timestamp <= OneMinute}

\* every row of the caller is older than one minute
AllRowsExpired(user) ==
    \A i \in DOMAIN ledger : ledger[i].user_id = str(user) => now - ledger[i].timestamp > OneMinute

\* the last step was a rate-limit check of a non-owner on a named, non-excluded
\* command whose count lookup succeeded
LimitedCheck ==
    /\ last.op = "check"
    /\ last.user \in UserIds \ AppOwnerIds
    /\ last.name \notin settings.rate_limit_excluded_commands \cup {NoName}
    /\ ~last.db_error

\* C1: once a non-owner has max_commands_per_minute rows in the last 60 seconds,
\* the rate-limit check (on either path) denies the next non-excluded command,
\* and once all the rows are older than 60 seconds it admits again.
C1_WindowDeniesThenAdmits ==
    LimitedCheck =>
        /\ Cardinality(RecentRows(last.user)) >= settings.max_commands_per_minute
               => last.result = "deny"
        /\ AllRowsExpired(last.user) => last.result = "allow"

\* C2: once the rate limiter has denied an invocation, that invocation appends
\* nothing to the ledger.
C2_DeniedIsNotLogged ==
    [][(itx.kind # "none" /\ itx.check = "deny") => ledger' = ledger]_vars

\* C3: the rate-limit check admits a bot owner whatever the ledger holds and
\* whatever the command.
C3_OwnerAlwaysAdmitted ==
    (last.op = "check" /\ bot_is_owner(last.user)) => last.result = "allow"

C3_Witness ==
    /\ last.op = "check"
    /\ last.path = "app"
    /\ bot_is_owner(last.user)
    /\ last.name \notin settings.rate_limit_excluded_commands \cup {NoName}
    /\ ~last.db_error
    /\ Cardinality(RecentRows(last.user)) >= settings.max_commands_per_minute
    /\ last.result = "allow"

\* C4: the rate-limit check admits a command of the excluded set for every user
\* and every ledger, also when the user's count has reached the maximum.
C4_ExcludedAlwaysAdmitted ==
    (last.op = "check" /\ last.name \in settings.rate_limit_excluded_commands)
        => last.result = "allow"

C4_Witness ==
    /\ last.op = "check"
    /\ last.path = "cog"
    /\ last.user \in UserIds \ AppOwnerIds
    /\ last.name \in settings.rate_limit_excluded_commands
    /\ ~last.db_error
    /\ Cardinality(RecentRows(last.user)) >= settings.max_commands_per_minute
    /\ last.result = "allow"

\* C5: a storage error during the count lookup makes the check answer allow,
\* never deny, and the command stays admitted.
C5_StorageErrorFailsOpen ==
    (last.op = "check" /\ last.db_error)
        => (last.result = "allow" /\ itx.check = "allow")

C5_Witness ==
    /\ last.op = "check"
    /\ last.path = "app"
    /\ last.user \in UserIds \ AppOwnerIds
    /\ last.name \notin settings.rate_limit_excluded_commands \cup {NoName}
    /\ last.db_error
    /\ Cardinality(RecentRows(last.user)) >= settings.max_commands_per_minute
    /\ last.result = "allow"


(* ======================= properties: create ============================= *)
\* the last step was a run of /gameserv_create that got past the validation
\* of its arguments
AcceptedCreate ==
    /\ last.op = "create"
    /\ valid_instance_name(last.instance_name)
    /\ settings.gcp_cog
    /\ last.template_name \in DOMAIN game_templates

\* the requester's newest 'gameserv_create' row, as a set
NewestCreate(user) ==
    {i \in DOMAIN ledger :
        /\ ledger[i].user_id = str(user)
        /\ ledger[i].command_name = "gameserv_create"
        /\ \A j \in DOMAIN ledger :
             (ledger[j].user_id = str(user) /\ ledger[j].command_name = "gameserv_create")
                 => ledger[j].timestamp <= ledger[i].timestamp}

\* C6: with max_active_vms_per_user = M > 0, a create request of a requester who
\* owns at least M active inventory rows is answered with the quota rejection,
\* and that run calls no provider operation and writes no inventory row.
C6_QuotaRejectsAtLimit ==
    (/\ AcceptedCreate
     /\ settings.max_active_vms_per_user > 0
     /\ last.active_before >= settings.max_active_vms_per_user
     /\ ~last.db_error)
        => /\ last.outcome = "quota_rejected"
           /\ last.calls = <<>>

\* C7: with vm_creation_cooldown_seconds = C > 0, a create request of a requester
\* under the quota whose newest 'gameserv_create' row is e seconds old is
\* answered with the cooldown rejection and remaining C - e when e < C, without
\* any provider call; when e >= C or there is no such row the cooldown does not
\* reject.
C7_CooldownRejectsWithRemaining ==
    (/\ AcceptedCreate
     /\ settings.vm_creation_cooldown_seconds > 0
     /\ last.active_before < settings.max_active_vms_per_user
            \/ settings.max_active_vms_per_user <= 0
     /\ ~last.db_error)
        => LET C == settings.vm_creation_cooldown_seconds
               hot == \E i \in NewestCreate(last.user) : now - ledger[i].timestamp < C
           IN IF hot
              THEN /\ last.outcome = "cooldown_rejected"
                   /\ \A i \in NewestCreate(last.user) :
                        last.remaining = C - (now - ledger[i].timestamp)
                   /\ last.calls = <<>>
              ELSE last.outcome # "cooldown_rejected"

\* C8: a run with a valid name and a template of two default ports, in which the
\* store works and the provider creates the VM with an external IP and both
\* firewall rules, ends in
\* success with exactly one instance create, and the inventory then holds a
\* RUNNING row of that name listing both ports.
C8_HappyPathRegistersRunning ==
    (/\ AcceptedCreate
     /\ Len(game_templates[last.template_name].default_ports) = 2
     /\ last.vm = "ok_ip"
     /\ \A i \in DOMAIN last.calls : ~last.calls[i].raised
     /\ ~last.db_error)
        => /\ last.outcome = "success"
           /\ Cardinality({i \in DOMAIN last.calls :
                              last.calls[i].call = "_create_vm_logic"}) = 1
           /\ \E row \in inventory :
                /\ row.gcp_instance_name = last.instance_name
                /\ row.status = "RUNNING"
                /\ row.ports_info # Nothing
                /\ Len(row.ports_info[1]) = 2


(* ======================= properties: delete ============================= *)
\* C9: a confirmed /gameserv_delete of the requester's own server, whose VM
\* delete the provider completes, tries the deletion of every firewall rule
\* that carries the server's tag, whether or not some of them fail; and the
\* inventory row is gone only if the VM delete completed.
C9_DeleteSweepsEveryRule ==
    (/\ last.op = "delete"
     /\ last.command = "gameserv_delete"
     /\ last.confirmed = "True"
     /\ last.rows_before # {}
     /\ \A row \in last.rows_before : row.discord_user_id = str(last.user)
     /\ last.vm_before
     /\ last.env.op = "ok"
     /\ ~last.env.db_error
     /\ ~last.env.list_error)
        => /\ \A name \in last.tagged_before :
                \E i \in DOMAIN last.calls :
                   /\ last.calls[i].call = "_delete_firewall_rule_logic"
                   /\ last.calls[i].rule = name
           /\ RowsNamed(inventory, last.instance_name) = {}
                 => \E i \in DOMAIN last.calls :
                       /\ last.calls[i].call = "compute_client"
                       /\ ~last.calls[i].raised

\* C10: a delete command ends in one of three ways - confirmed, cancelled, or
\* timed out once 60 seconds have passed.  A provider call is made, or the
\* inventory row of the name changes, only after the invoking user pressed
\* Confirm; after Cancel or the timeout there is no provider call and the row
\* is as it was.
C10_DeleteOnlyWhenConfirmed ==
    last.op = "delete" =>
        /\ last.confirmed \in {"True", "False", "None"}
        /\ last.confirmed = "None" => (last.outcome = "timed_out" /\ last.waited >= ViewTimeout)
        /\ last.confirmed = "False" => last.outcome = "cancelled"
        /\ (last.calls # <<>> \/ RowsNamed(inventory, last.instance_name) # last.rows_before)
               => (last.confirmed = "True" /\ last.clicked_by = Some(last.user))
        /\ last.confirmed # "True"
               => /\ last.calls = <<>>
                  /\ RowsNamed(inventory, last.instance_name) = last.rows_before

C10_Witness ==
    /\ last.op = "delete"
    /\ last.command = "gcp_delete_vm"
    /\ last.confirmed = "True"
    /\ last.clicked_by = Some(last.user)
    /\ last.vm_before
    /\ \E i \in DOMAIN last.calls :
          /\ last.calls[i].call = "compute_client"
          /\ last.calls[i].action = "delete"
          /\ ~last.calls[i].raised
    /\ ~\E i \in vms : i.name = last.instance_name

(* ==================== properties: provider operations =================== *)
WaitEnded == wait.pc \in {"returned", "raised"}

\* C11: a wait_for_operation call whose operation never reports DONE ends
\* after finitely many polls, by raising TimeoutError once the elapsed time has
\* reached timeout_seconds, and _create_vm_logic passes that failure on; no
\* call polls forever, whatever the timeout.
C11_WaitTerminates ==
    /\ [](WaitEnded /\ ~wait.seen_done /\ wait.pc = "raised"
            => /\ wait.exc = "TimeoutError"
               /\ wait.elapsed >= wait.timeout_seconds
               /\ create_vm_after_wait(wait) = "TimeoutError")
    /\ [](WaitEnded /\ ~wait.seen_done /\ wait.pc = "returned"
            => wait.result = "None" /\ wait.polls = 0)
    /\ (wait.pc \in {"poll", "sleep"} ~> WaitEnded)

C11_Witness ==
    /\ wait.pc = "raised"
    /\ wait.exc = "TimeoutError"
    /\ ~wait.seen_done
    /\ wait.timeout_seconds = DefaultOperationTimeout
    /\ wait.polls > 1

(* ================= properties: start, stop, delete ====================== *)
\* the last step ran _control_game_server: a start or stop command, or a
\* confirmed /gameserv_delete
ControlRan ==
    \/ last.op = "control"
    \/ /\ last.op = "delete"
       /\ last.command = "gameserv_delete"
       /\ last.confirmed = "True"
LastAction == IF last.op = "control" THEN last.action ELSE "delete"
\* ... on a server the inventory lists as the requester's, whose VM exists,
\* with the store answering every call
OwnServerControlled ==
    /\ ControlRan
    /\ last.rows_before # {}
    /\ \A row \in last.rows_before : row.discord_user_id = str(last.user)
    /\ last.vm_before
    /\ ~last.env.db_error

\* C12: after a start, stop or delete of the requester's own server whose
\* provider operation never completes, so that the wait for it times out, the
\* inventory row of the server carries the pending status of the action
\* (STARTING, STOPPING, DELETING) and no other status.
C12_TimeoutKeepsPending ==
    (OwnServerControlled /\ last.env.op = "op_timeout")
        => /\ RowsNamed(inventory, last.instance_name) # {}
           /\ \A row \in RowsNamed(inventory, last.instance_name) :
                row.status = pending_status(LastAction)

\* C13: after a confirmed /gameserv_delete of the requester's own server whose
\* VM delete the provider fails, the inventory row is still there with status
\* ERROR, and no firewall rule deletion was tried.
C13_FailedDeleteKeepsRowAsError ==
    (/\ OwnServerControlled
     /\ LastAction = "delete"
     /\ last.env.op \in {"call_error", "op_error"})
        => /\ RowsNamed(inventory, last.instance_name) # {}
           /\ \A row \in RowsNamed(inventory, last.instance_name) : row.status = "ERROR"
           /\ \A i \in DOMAIN last.calls :
                last.calls[i].call # "_delete_firewall_rule_logic"

\* C14: in every state, every inventory row whose status is TERMINATED or
\* DELETED has an empty or null ip_address, whatever start, stop and delete
\* commands and sweeps have run.
C14_StoppedRowsHaveNoAddress ==
    \A row \in inventory :
        row.status \in {"TERMINATED", "DELETED"} => row.ip_address \in {"", None}

\* a row has been brought to a stopped or deleted status
C14_Witness ==
    \E row \in inventory :
        /\ row.status \in {"TERMINATED", "DELETED"}
        /\ row \notin ControlSeedRows

(* ================= properties: the inventory functions ================== *)
\* the rows of the other names are the same before and after the step
OtherRowsUnchanged(name) ==
    {r \in inventory : r.gcp_instance_name # name}
        = {r \in inventory' : r.gcp_instance_name # name}

\* C15: a call of update_game_server_status changes nothing but the row of the
\* name it is given, and in that row nothing but status, last_status_update
\* and the optional fields that were passed: ip_address, gcp_instance_id and
\* ports_info keep their value when the argument is left out, and a call that
\* answers False changes nothing at all.
C15_UpdateChangesOnlyWhatWasGiven ==
    [][last'.op = "update_status"
         => /\ OtherRowsUnchanged(last'.name)
            /\ ~last'.ok => inventory' = inventory
            /\ \A r \in RowsNamed(inventory, last'.name) :
                 \E r2 \in RowsNamed(inventory', last'.name) :
                    /\ RowsNamed(inventory', last'.name) = {r2}
                    /\ r2.discord_user_id = r.discord_user_id
                    /\ r2.created_at = r.created_at
                    /\ r2.auto_shutdown_hours = r.auto_shutdown_hours
                    /\ last'.ip = None => r2.ip_address = r.ip_address
                    /\ last'.gcp_instance_id = None => r2.gcp_instance_id = r.gcp_instance_id
                    /\ last'.ports = Nothing => r2.ports_info = r.ports_info
                    /\ last'.ok => r2.status = last'.status]_vars

\* an update that passed a status only went through, next to another row
C15_Witness ==
    /\ last.op = "update_status"
    /\ last.ok
    /\ last.ip = None /\ last.gcp_instance_id = None /\ last.ports = Nothing
    /\ \E r \in RowsNamed(inventory, last.name) :
         /\ r.status = last.status
         /\ r.ip_address = NatIp
         /\ r.ports_info = Some(SeedPorts)
         /\ r.last_status_update > r.created_at
    /\ \E r \in inventory : r.gcp_instance_name # last.name

\* C16: update_game_server_status answers False when there is no row of the
\* name, and tells a failure of the store apart from that: a call during which
\* the store fails ends with an error signalled to the caller, not with the
\* False of "not found".
C16_StorageErrorIsSignalled ==
    last.op = "update_status"
        => /\ (~last.db_error /\ RowsNamed(inventory, last.name) = {})
                 => (~last.ok /\ ~last.raised)
           /\ last.db_error => last.raised

\* C18: no two inventory rows carry the same gcp_instance_name, and a
\* register_game_server call for a name that has a row fails and leaves the
\* inventory as it was, whatever calls came before.
C18_InstanceNamesAreUnique ==
    /\ [](\A r1, r2 \in inventory :
            r1.gcp_instance_name = r2.gcp_instance_name => r1 = r2)
    /\ [][(last'.op = "register" /\ RowsNamed(inventory, last'.name) # {})
            => (last'.raised /\ inventory' = inventory)]_vars

\* a register for a name that has a row was refused by the index alone
C18_Witness ==
    /\ last.op = "register"
    /\ last.raised
    /\ ~last.db_error
    /\ last.gcp_instance_id = None
    /\ \E r \in RowsNamed(inventory, last.name) : r.created_at < now

\* C19: across any step the last_status_update of the row of a name does not
\* decrease (the clock does not go back), and an update_game_server_status
\* call that answers True leaves it equal to the current time.
C19_LastStatusUpdateIsMonotone ==
    [][/\ \A r \in inventory : \A r2 \in RowsNamed(inventory', r.gcp_instance_name) :
             r2.last_status_update >= r.last_status_update
       /\ (last'.op = "update_status" /\ last'.ok)
             => \A r2 \in RowsNamed(inventory', last'.name) : r2.last_status_update = now']_vars

\* an update went through later than the row's previous status change
C19_Witness ==
    /\ last.op = "update_status"
    /\ last.ok
    /\ now > 0
    /\ \E r \in RowsNamed(inventory, last.name) :
         r.last_status_update = now /\ r.created_at < now

(* ============ properties: control actions and the store ================= *)
\* C17: a start, stop or confirmed delete during which the store fails makes
\* no compute_client call, and the row of the server is as it was before.
C17_StoreFailureAbortsControl ==
    (ControlRan /\ last.env.db_error)
        => /\ \A i \in DOMAIN last.calls : last.calls[i].call # "compute_client"
           /\ RowsNamed(inventory, last.instance_name) = last.rows_before

\* a control action on a listed server ran while the store was failing
C17_Witness ==
    /\ ControlRan
    /\ last.env.db_error
    /\ last.rows_before # {}
    /\ last.outcome \notin {"AttributeError", "unavailable"}

(* ================= properties: create, validation ======================= *)
\* the request is one the validation refuses: a malformed instance name, a
\* template that is not loaded, malformed custom-parameter JSON, or a
\* startup-script placeholder without a value
FailsValidation(templates, request) ==
    \/ ~valid_instance_name(request.instance_name)
    \/ request.template_name \notin DOMAIN templates
    \/ request.params_defect # "none"

\* C20: a /gameserv_create request that fails validation makes no provider
\* call and leaves the inventory, the provider's instances and the firewall
\* rules as they were.
C20_InvalidCreateChangesNothing ==
    [][(last'.op = "create" /\ FailsValidation(game_templates, last'))
          => /\ last'.calls = <<>>
             /\ inventory' = inventory
             /\ vms' = vms
             /\ firewall_rules' = firewall_rules]_vars

\* a request passed the quota and the cooldown and was refused for a
\* placeholder without a value
C20_Witness ==
    /\ last.op = "create"
    /\ last.outcome = "missing_param"
    /\ last.params_defect = "placeholder"
    /\ valid_instance_name(last.instance_name)
    /\ last.calls = <<>>
    /\ inventory = SeedRows

(* ================= properties: the auto-shutdown sweep ================== *)
\* the rows get_all_running_servers returns whose auto-shutdown delay has
\* passed at time t
DueForShutdown(inv, t) ==
    {r \in inv : /\ r.status \in {"RUNNING", "PROVISIONING", "STARTING"}
                 /\ r.auto_shutdown_hours # NoHours
                 /\ t - r.last_status_update > r.auto_shutdown_hours * SecondsPerHour}

\* the run called compute_client.stop for the server of that name
StopIssued(calls, name) ==
    \E i \in DOMAIN calls : /\ calls[i].call = "compute_client"
                            /\ calls[i].action = "stop"
                            /\ calls[i].instance_name = name

\* C21: a sweep issues a stop for every server with auto-shutdown configured
\* (status RUNNING, PROVISIONING or STARTING) whose delay has passed, whatever
\* happens to the other servers of that sweep.
C21_SweepStopsEveryDueServer ==
    [][last'.op = "sweep"
          => \A r \in DueForShutdown(inventory, now) :
                StopIssued(last'.calls, r.gcp_instance_name)]_vars

\* the stop calls of the run for the server of that name
StopCalls(calls, name) ==
    {i \in DOMAIN calls : /\ calls[i].call = "compute_client"
                          /\ calls[i].action = "stop"
                          /\ calls[i].instance_name = name}

\* C22: a server whose auto-shutdown stop fails is marked ERROR_AUTO_STOP and
\* is stopped once only in that sweep; a later sweep that finds the row so
\* marked, with its delay passed, issues the stop again.
C22_FailedAutoStopIsMarkedAndRetried ==
    [][last'.op = "sweep"
          => /\ \A i \in DOMAIN last'.calls :
                  last'.calls[i].raised
                      => /\ \A r \in RowsNamed(inventory', last'.calls[i].instance_name) :
                              r.status = "ERROR_AUTO_STOP"
                         /\ Cardinality(StopCalls(last'.calls,
                                                  last'.calls[i].instance_name)) = 1
             /\ \A r \in inventory :
                  (/\ r.status = "ERROR_AUTO_STOP"
                   /\ r.auto_shutdown_hours # NoHours
                   /\ now - r.last_status_update > r.auto_shutdown_hours * SecondsPerHour)
                      => StopIssued(last'.calls, r.gcp_instance_name)]_vars

\* a sweep issued a stop that failed
C22_Witness ==
    /\ last.op = "sweep"
    /\ \E i \in DOMAIN last.calls : last.calls[i].raised

(* ================= properties: create, partial failure ================== *)
\* the run created the VM and went on to the ports and the registration
VmCreated ==
    /\ last.op = "create"
    /\ last.calls # <<>>
    /\ ~last.calls[1].raised

\* the ports of the run whose rule could not be created
FailedPorts ==
    {last.calls[i].port : i \in {j \in DOMAIN last.calls :
                                   /\ last.calls[j].call = "_open_port_logic"
                                   /\ last.calls[j].raised}}

\* C23: a run that created the VM and then failed to open a port or to
\* register the server does not reply with the success message.
C23_PartialFailureIsReported ==
    (VmCreated /\ (FailedPorts # {} \/ last.registration = "raised"))
        => last.message.kind # "success"

\* the _open_port_logic calls of the run, in the order they were made
PortCalls == SelectSeq(last.calls, LAMBDA c : c.call = "_open_port_logic")

\* C24: once the VM is created, a rule is attempted for every default port of
\* the template, in the template's order, whichever of them fail, and the
\* registration of step 5 is attempted after them.
C24_PortFailureDoesNotAbort ==
    VmCreated
        => LET default_ports == game_templates[last.template_name].default_ports
           IN /\ Len(PortCalls) = Len(default_ports)
              /\ \A i \in DOMAIN default_ports : PortCalls[i].port = default_ports[i].port
              /\ last.calls = <<last.calls[1]>> \o PortCalls
              /\ last.registration \in {"ok", "raised"}

\* the first of two default ports could not be opened; the second was
\* attempted and the registration was entered
C24_Witness ==
    /\ VmCreated
    /\ Len(PortCalls) = 2
    /\ PortCalls[1].raised
    /\ ~PortCalls[2].raised
    /\ last.registration \in {"ok", "raised"}

(* ================= properties: the per-instance tag ===================== *)
\* the characters a tag is made of
TagChars == Range(LowerLetters) \cup Range(DigitChars) \cup {"-"}

\* C25: the tag of an instance is "gameserv-" followed by the name in lower
\* case with hyphens for underscores, cut after 63 characters; the tag computed
\* when the rules are looked up for a delete is the tag computed when they were
\* opened, so every rule a create opens for a name is among the rules the
\* lookup by that name's tag returns.
C25_TagIsTheSameAtCreateAndDelete ==
    /\ [](\A name \in CandidateNames :
            LET tag == game_server_specific_tag(name)
                c == Chars(name)
            IN /\ tag = game_server_specific_tag_delete(name)
               /\ Len(tag) = IF Len(c) + 9 <= 63 THEN Len(c) + 9 ELSE 63
               /\ SubSeq(tag, 1, 9) = <<"g","a","m","e","s","e","r","v","-">>
               /\ \A i \in 10..Len(tag) :
                    /\ tag[i] \in TagChars
                    /\ tag[i] = (IF c[i - 9] = "_" THEN "-" ELSE lower(c[i - 9])))
    /\ [][last'.op = "create"
             => \A rule \in firewall_rules' \ firewall_rules :
                   rule \in _list_firewall_rules_by_target_tag(firewall_rules',
                                game_server_specific_tag_delete(last'.instance_name), FALSE)]_vars

\* a create of the 63-character name opened a rule, under a tag cut to 63
\* characters
C25_Witness ==
    /\ last.op = "create"
    /\ last.instance_name = Name63
    /\ Len(Chars(Name63)) + 9 > 63
    /\ \E rule \in firewall_rules :
          /\ rule.target_tags = {game_server_specific_tag(Name63)}
          /\ \E i \in DOMAIN last.calls : /\ last.calls[i].call = "_open_port_logic"
                                          /\ last.calls[i].rule = rule.name
                                          /\ ~last.calls[i].raised

(* ================= properties: who may control a server ================= *)
\* the requester of the last control action owns the server, is a bot owner or
\* holds the Game Admin role
Entitled ==
    \/ bot_is_owner(last.user)
    \/ last.game_admin
    \/ \E row \in last.rows_before : row.discord_user_id = str(last.user)

\* the run called compute_client
CloudCalled ==
    \E i \in DOMAIN last.calls : last.calls[i].call = "compute_client"

\* C26: a start, stop or confirmed delete of a server the inventory lists
\* calls the provider exactly when the requester owns the server, is a bot
\* owner or is a game admin; for anybody else the row stays as it was.
C26_OnlyOwnerOrAdminControls ==
    (ControlRan /\ last.rows_before # {} /\ last.vm_before /\ ~last.env.db_error)
        => /\ CloudCalled <=> Entitled
           /\ ~Entitled => RowsNamed(inventory, last.instance_name) = last.rows_before

(* ================= properties: labels and tags of a new VM ============== *)
\* the labels and tags the last create sent with compute_client.insert
SentRequest == last.calls[1].request

\* C27: every instance the create command asks the provider for is labelled
\* discord-bot-managed = true and created-by = the requester's id, whatever
\* labels the template has, and its tags include discord-bot-vm and name no tag
\* twice.
C27_DefaultLabelsAndTagsAreSent ==
    (last.op = "create" /\ last.calls # <<>>)
        => /\ "discord-bot-managed" \in DOMAIN SentRequest.labels
           /\ SentRequest.labels["discord-bot-managed"] = "true"
           /\ "created-by" \in DOMAIN SentRequest.labels
           /\ SentRequest.labels["created-by"] = str(last.user)
           /\ DefaultTag \in Range(SentRequest.tags)
           /\ Len(SentRequest.tags) = Cardinality(Range(SentRequest.tags))

(* ================= properties: the naming rule ========================== *)
\* the naming rule in words: 1 to 63 characters, a lowercase letter first, only
\* lowercase letters, digits and hyphens, no hyphen last
NameRule(name) ==
    LET c == Chars(name)
    IN /\ Len(c) \in 1..63
       /\ c[1] \in Range(LowerLetters)
       /\ \A i \in DOMAIN c : c[i] \in TagChars
       /\ c[Len(c)] # "-"

\* C28: the validation of an instance name accepts exactly the names of 1 to
\* 63 characters that start with a lowercase letter, hold only lowercase
\* letters, digits and hyphens and do not end with a hyphen; a create with a
\* rejected name is answered "invalid name" and makes no provider call.
C28_NameValidation ==
    /\ \A name \in CandidateNames : valid_instance_name(name) <=> NameRule(name)
    /\ (last.op = "create" /\ ~NameRule(last.instance_name))
          => /\ last.outcome = "invalid_name"
             /\ last.calls = <<>>
    /\ (last.op = "create" /\ last.calls # <<>>) => NameRule(last.instance_name)

\* a create with a name that ends with a hyphen was turned away
C28_Witness ==
    /\ last.op = "create"
    /\ last.instance_name = "server-"
    /\ last.outcome = "invalid_name"
    /\ last.calls = <<>>

(* ================= properties: a create whose VM is not made ============ *)
\* the answers of the provider with which _create_vm_logic raises: the insert
\* is refused, the operation times out, the instance cannot be read back
FailingVmOutcomes == {"insert_error", "op_timeout", "get_error"}

\* the create recorded in l asked for a VM and did not get it
ProvisioningFailed(l) ==
    /\ l.op = "create"
    /\ l.calls # <<>>
    /\ (l.vm \in FailingVmOutcomes \/ l.calls[1].raised)

\* C29: a create whose create_instance call fails ends with the error message:
\* the call of _create_vm_logic is its only call, no firewall rule is opened,
\* no registration is attempted and the inventory is as it was.
C29_FailedProvisioningStops ==
    [][ProvisioningFailed(last')
          => /\ last'.outcome = "error"
             /\ last'.message.kind = "error"
             /\ Len(last'.calls) = 1
             /\ last'.calls[1].call = "_create_vm_logic"
             /\ last'.calls[1].raised
             /\ last'.registration = "none"
             /\ firewall_rules' = firewall_rules
             /\ inventory' = inventory]_vars

\* a create ended with the error message after the wait for the insert
\* operation timed out
C29_Witness ==
    /\ ProvisioningFailed(last)
    /\ last.vm = "op_timeout"
    /\ last.outcome = "error"
    /\ \E i \in vms : i.name = last.instance_name

(* ================= properties: a failed start or stop =================== *)
\* the last start or stop reached the provider, which is after the pending
\* status is written (gameserver_cog.py:697), and the call or the operation
\* failed
StartOrStopFailedAtProvider ==
    /\ last.op = "control"
    /\ last.action \in {"start", "stop"}
    /\ last.calls # <<>>
    /\ last.calls[1].call = "compute_client"
    /\ last.calls[1].raised
    /\ ~last.env.db_error

\* C30: after a start or stop whose provider call or operation failed once
\* STARTING / STOPPING was written, the row of the server has status ERROR, not
\* the pending status and not RUNNING / TERMINATED as the action would have
\* left it.
C30_FailedStartOrStopEndsAsError ==
    StartOrStopFailedAtProvider
        => /\ RowsNamed(inventory, last.instance_name) # {}
           /\ \A row \in RowsNamed(inventory, last.instance_name) : row.status = "ERROR"

\* a start or stop failed at the provider
C30_Witness ==
    /\ StartOrStopFailedAtProvider
    /\ last.env.op \in {"call_error", "op_error"}
    /\ last.rows_before # {}

(* ================= properties: an error of one poll ===================== *)
\* C31: a poll in which operations_client.get raises ends the call: the error
\* is raised to the caller at that poll, whatever the time elapsed, and a call
\* that has ended polls no more.
C31_PollErrorIsNotRetried ==
    /\ [](wait.pc # "idle" /\ wait.answer = "api_error"
            => /\ wait.pc = "raised"
               /\ wait.exc = "ApiError"
               /\ create_vm_after_wait(wait) = "ApiError")
    /\ [][wait.pc \in {"raised", "returned"} => wait'.polls = wait.polls]_vars

\* the third poll of a call raised, after two that found the operation running
C31_Witness ==
    /\ wait.pc = "raised"
    /\ wait.exc = "ApiError"
    /\ wait.polls = 3
    /\ wait.elapsed < wait.timeout_seconds

(* ================= properties: the auto-shutdown countdown ============== *)
\* C32: a sweep stops a server only when more than auto_shutdown_hours have
\* passed since the last_status_update of its row, which every successful
\* status update sets to the time of the update.
C32_SweepStopsOnlyAfterTheDelay ==
    [][last'.op = "sweep"
          => \A i \in DOMAIN last'.calls :
                \E r \in RowsNamed(inventory, last'.calls[i].instance_name) :
                   /\ r.auto_shutdown_hours # NoHours
                   /\ now - r.last_status_update > r.auto_shutdown_hours * SecondsPerHour]_vars

\* a sweep stopped a server
C32_Witness ==
    /\ last.op = "sweep"
    /\ last.calls # <<>>

(* ================= properties: the quota as an invariant ================ *)
\* the rows of one owner that count against max_active_vms_per_user
ActiveRowsOf(owner) ==
    {r \in inventory : r.discord_user_id = owner /\ r.status \in ActiveStatuses}

\* C33: with max_active_vms_per_user = M > 0, no user ever owns more than M
\* inventory rows with an active status.
C33_ActiveRowsWithinQuota ==
    settings.max_active_vms_per_user > 0
        => \A user \in UserIds :
              Cardinality(ActiveRowsOf(str(user))) <= settings.max_active_vms_per_user

\* a create under a quota registered a row
C33_Witness ==
    /\ last.op = "create"
    /\ settings.max_active_vms_per_user > 0
    /\ last.registration = "ok"

(* ================= properties: inventory against the provider ========== *)
\* the provider's status of the VM of that name, if there is one
VmStatus(name) == {i.status : i \in {v \in vms : v.name = name}}

\* C34: between control actions and sweeps that all succeeded, a row with
\* status RUNNING names a VM that is running and a row with status TERMINATED
\* names a VM that is stopped.
C34_InventoryAgreesWithProvider ==
    (last.op \in {"control", "sweep"} /\ \A i \in DOMAIN last.calls : ~last.calls[i].raised)
        => \A r \in inventory :
              /\ r.status = "RUNNING" => VmStatus(r.gcp_instance_name) \subseteq {"RUNNING"}
              /\ r.status = "TERMINATED" => VmStatus(r.gcp_instance_name) \subseteq {"TERMINATED"}

\* a start, a stop or a sweep changed the state of a VM
C34_Witness ==
    /\ last.op \in {"control", "sweep"}
    /\ last.calls # <<>>
    /\ \A i \in DOMAIN last.calls : ~last.calls[i].raised

(* ================= properties: a removed row stays removed ============== *)
\* C35: a status update for a name the inventory does not hold answers False
\* and writes nothing, and so does a removal; whatever calls of the inventory
\* functions follow a removal, in any order, only register_game_server brings
\* a row of that name back.
C35_RemovedRowStaysAbsent ==
    /\ [][\A name \in StoreNames :
            (RowsNamed(inventory, name) = {} /\ RowsNamed(inventory', name) # {})
                => (last'.op = "register" /\ last'.name = name /\ ~last'.raised)]_vars
    /\ [][(last'.op \in {"update_status", "remove"}
             /\ RowsNamed(inventory, last'.name) = {})
            => (~last'.ok /\ inventory' = inventory)]_vars

\* the row of 'mc1' was removed, and a later status update for 'mc1', with the
\* store answering, returned False and left the inventory without it
C35_Witness ==
    /\ last.op = "update_status"
    /\ last.name = "mc1"
    /\ ~last.db_error
    /\ ~last.ok
    /\ RowsNamed(inventory, "mc1") = {}


(* ================= properties: whose rules a tag matches ================ *)
\* C36: for two distinct valid instance names A and B, the rules matched by
\* A's tag are rules A's own provisioning opened: no rule that a create opens
\* for B is among the rules the delete of A looks up by A's tag.
C36_TagMatchesOnlyOwnRules ==
    [][last'.op = "create"
         => \A other \in CandidateNames \ {last'.instance_name} :
               valid_instance_name(other)
                   => \A rule \in firewall_rules' \ firewall_rules :
                         rule \notin _list_firewall_rules_by_target_tag(firewall_rules',
                                         game_server_specific_tag_delete(other), FALSE)]_vars


(* ================= properties: the template after a create ============== *)
\* a tag of the per-instance kind: "gameserv-" and a name
IsPerInstanceTag(tag) ==
    Len(tag) >= 9 /\ SubSeq(tag, 1, 9) = <<"g","a","m","e","s","e","r","v","-">>

\* the per-instance tags among the tags sent with the last create's request
PerInstanceTagsSent(l) ==
    {tag \in UNION {Range(l.calls[i].request.tags) :
                       i \in {j \in DOMAIN l.calls : l.calls[j].call = "_create_vm_logic"}} :
        IsPerInstanceTag(tag)}

\* C37: a create invocation leaves the loaded template definitions (their
\* additional_tags and labels) as they were, and the tags passed with the
\* request to create an instance contain no per-instance tag but the
\* instance's own.
C37_CreateLeavesTemplateUnchanged ==
    [][last'.op = "create"
         => /\ game_templates' = game_templates
            /\ PerInstanceTagsSent(last')
                  \subseteq {game_server_specific_tag(last'.instance_name)}]_vars


(* ================= properties: the ports of the record ================== *)
\* C38: the ports handed to the registration of a provisioning run, and the
\* ports of the record it stores, are exactly the template ports whose firewall
\* rule was opened in that run; a port whose rule creation failed is not among
\* them.
C38_RecordListsOpenedPorts ==
    [][(last'.op = "create" /\ last'.registration # "none")
         => /\ ports_info(game_templates[last'.template_name]) = last'.message.ports
            /\ last'.registration = "ok"
                  => \A r \in RowsNamed(inventory', last'.instance_name) :
                        r.ports_info = (IF last'.message.ports # <<>>
                                        THEN Some(last'.message.ports) ELSE Nothing)]_vars


(* ================= properties: one user's limit and the others ========== *)
\* the ledger rows of one user, in order
OwnRows(rows, user) == SelectSeq(rows, LAMBDA row : row.user_id = str(user))

\* the ledger with one more row of another user, written now
WithForeignRow(rows, user) ==
    {Append(rows, UserUsage(str(other), "admin_test", now)) : other \in UserIds \ {user}}

\* the ledgers that agree with the ledger on the user's rows: the ledger, the
\* user's rows alone, and the ledger with a row of another user added
AgreeingLedgers(user) == {ledger, OwnRows(ledger, user)} \cup WithForeignRow(ledger, user)

\* C39: the rate limiter's decision for a user depends only on that user's own
\* ledger rows: on ledgers that agree on the user's rows and differ in the
\* rows of other users, an invocation by the user gets the same decision, from
\* the check of the slash commands and from the check of the prefixed ones.
C39_DecisionDependsOnOwnRows ==
    [][last'.op = "check"
         => \A rows \in AgreeingLedgers(last'.user) :
               LET max == settings.max_commands_per_minute
                   excluded == settings.rate_limit_excluded_commands
               IN last'.result
                    = IF last'.path = "app"
                      THEN check_app_command_rate_limit(last'.user, last'.name, rows, now,
                               max, excluded, last'.db_error)
                      ELSE cog_check(last'.user, last'.name, rows, now, max, excluded,
                               last'.db_error, last'.send_error)]_vars

\* user 201 was admitted while the rows of every user in the window, counted
\* together, reach the limit
C39_Witness ==
    /\ last.op = "check"
    /\ last.user = 201
    /\ ~last.db_error
    /\ last.name \notin settings.rate_limit_excluded_commands \cup {NoName}
    /\ last.result = "allow"
    /\ Cardinality({i \in DOMAIN ledger : ledger[i].timestamp >= now - OneMinute})
          >= settings.max_commands_per_minute
    /\ OwnRows(ledger, 201) # ledger


(* ================= properties: the cooldown and the own event =========== *)
\* C40: a create invocation of a user who has no earlier 'gameserv_create'
\* usage event is not rejected by the cooldown check, whether the interaction
\* listener records the event of this invocation before or after the command
\* body runs: while requests arrive only on an empty ledger, no create ends in
\* the cooldown rejection.
C40_OwnEventIsNotTheLastCreate ==
    last.op = "create" => last.outcome # "cooldown_rejected"

====
